---- MODULE Spec2Model ----
(***************************************************************************)
(* Envelope encryption of packages/crypto/src/index.ts: getMasterKey,      *)
(* validateHex, encryptEnvelope and decryptEnvelope.                       *)
(*                                                                         *)
(* Text is a sequence of one-character strings, a Buffer is a sequence of  *)
(* bytes 0..255.  Hex text, UTF-8 and JSON text are computed as Node       *)
(* computes them.  AES-256-GCM is an ideal AEAD: a keystream that is       *)
(* sampled when a (key, iv) pair is first used, and tags that verify only  *)
(* if the cipher produced them.                                            *)
(***************************************************************************)
EXTENDS Integers, Sequences, FiniteSets, TLC

(***************************************************************************)
(* Bounds of the model.                                                    *)
(***************************************************************************)
\* the records sealed in one behaviour of Spec
MaxSeals == 1
\* the records sealed in one behaviour of SpecPair
MaxPairSeals == 2
\* the changes of MASTER_KEY_HEX in one behaviour of SpecRotation
MaxRotations == 3
\* the requests the service receives in one behaviour of SpecConcurrent
MaxRequests == 3
\* the POST /tx/encrypt requests in one behaviour of SpecWrites
MaxWrites == 2
\* records stored by the service in one behaviour of SpecService
MaxStored == 1

(***************************************************************************)
(* Buffers and hex text: Buffer.toString("hex"), Buffer.from(s, "hex")     *)
(* and the test /^[0-9a-fA-F]+$/.                                          *)
(***************************************************************************)
HexDigits == <<"0", "1", "2", "3", "4", "5", "6", "7",
               "8", "9", "a", "b", "c", "d", "e", "f">>

HexTable ==
    [c \in {"0", "1", "2", "3", "4", "5", "6", "7", "8", "9",
            "a", "b", "c", "d", "e", "f", "A", "B", "C", "D", "E", "F"} |->
        CASE c = "0" -> 0  [] c = "1" -> 1  [] c = "2" -> 2  [] c = "3" -> 3
          [] c = "4" -> 4  [] c = "5" -> 5  [] c = "6" -> 6  [] c = "7" -> 7
          [] c = "8" -> 8  [] c = "9" -> 9
          [] c \in {"a", "A"} -> 10 [] c \in {"b", "B"} -> 11
          [] c \in {"c", "C"} -> 12 [] c \in {"d", "D"} -> 13
          [] c \in {"e", "E"} -> 14 [] c \in {"f", "F"} -> 15]

\* faulty variant, for sensitivity analysis: the letters A to F are no hex digits
HexValLowerOnly(c) ==
    IF c \in DOMAIN HexTable /\ c \notin {"A", "B", "C", "D", "E", "F"} THEN HexTable[c] ELSE -1

\* the value of a hex digit of either case, -1 for any other character
HexVal(c) == IF c \in DOMAIN HexTable THEN HexTable[c] ELSE -1

\* /^[0-9a-fA-F]+$/.test(s): at least one character, all of them hex digits
HexPattern(s) == Len(s) >= 1 /\ \A i \in 1..Len(s) : HexVal(s[i]) >= 0

\* the number of leading two-digit pairs of s that are both hex digits
RECURSIVE HexPairs(_, _)
HexPairs(s, n) ==
    IF 2 * n + 2 <= Len(s) /\ HexVal(s[2 * n + 1]) >= 0 /\ HexVal(s[2 * n + 2]) >= 0
    THEN HexPairs(s, n + 1)
    ELSE n

\* Buffer.from(s, "hex"): decodes pairs of digits up to the first pair that
\* is not hex; a dangling last digit is dropped
BufferFromHex(s) ==
    [i \in 1..HexPairs(s, 0) |-> 16 * HexVal(s[2 * i - 1]) + HexVal(s[2 * i])]

\* buf.toString("hex"): two lowercase digits a byte
BufferToHex(buf) ==
    [i \in 1..(2 * Len(buf)) |->
        IF i % 2 = 1 THEN HexDigits[(buf[(i + 1) \div 2] \div 16) + 1]
                     ELSE HexDigits[(buf[i \div 2] % 16) + 1]]

(***************************************************************************)
(* Text and UTF-8: Buffer.from(text, "utf8") and buf.toString("utf8").     *)
(* The alphabet is printable ASCII, tab, line feed, carriage return and    *)
(* one two-byte character, U+00E9.                                         *)
(***************************************************************************)
\* the printable ASCII characters; Ascii[k] has code k + 31
Ascii ==
    << " ", "!", "\"", "#", "$", "%", "&", "'", "(", ")", "*", "+",
       ",", "-", ".", "/", "0", "1", "2", "3", "4", "5", "6", "7",
       "8", "9", ":", ";", "<", "=", ">", "?", "@", "A", "B", "C",
       "D", "E", "F", "G", "H", "I", "J", "K", "L", "M", "N", "O",
       "P", "Q", "R", "S", "T", "U", "V", "W", "X", "Y", "Z", "[",
       "\\", "]", "^", "_", "U+0060", "a", "b", "c", "d", "e", "f", "g",
       "h", "i", "j", "k", "l", "m", "n", "o", "p", "q", "r", "s",
       "t", "u", "v", "w", "x", "y", "z", "{", "|", "}", "~" >>

EAcute == "U+00E9"
\* what toString("utf8") gives for bytes that are no UTF-8 of the alphabet
Replacement == "U+FFFD"
\* a control character other than tab, line feed and carriage return
Control == "U+0000"

IsAscii(c) == \E k \in 1..Len(Ascii) : Ascii[k] = c

CharBytes(c) ==
    IF IsAscii(c) THEN <<31 + (CHOOSE k \in 1..Len(Ascii) : Ascii[k] = c)>>
    ELSE IF c = EAcute THEN <<195, 169>>
    ELSE IF c = "\t" THEN <<9>>
    ELSE IF c = "\n" THEN <<10>>
    ELSE IF c = "\r" THEN <<13>>
    ELSE IF c = Control THEN <<0>>
    ELSE <<239, 191, 189>>

\* Buffer.from(text, "utf8")
RECURSIVE Utf8Encode(_)
Utf8Encode(text) ==
    IF Len(text) = 0 THEN <<>>
    ELSE CharBytes(Head(text)) \o Utf8Encode(Tail(text))

\* buf.toString("utf8"), the character that starts at byte i and the index
\* of the byte after it: never fails, a byte that starts no character of the
\* alphabet gives the replacement character
Utf8Step(buf, i) ==
    LET b == buf[i] IN
    CASE b >= 32 /\ b <= 126 -> [char |-> Ascii[b - 31], next |-> i + 1]
      [] b = 9 -> [char |-> "\t", next |-> i + 1]
      [] b = 10 -> [char |-> "\n", next |-> i + 1]
      [] b = 13 -> [char |-> "\r", next |-> i + 1]
      [] b < 32 \/ b = 127 -> [char |-> Control, next |-> i + 1]
      [] b = 195 /\ i < Len(buf) /\ buf[i + 1] = 169 -> [char |-> EAcute, next |-> i + 2]
      [] OTHER -> [char |-> Replacement, next |-> i + 1]

\* buf.toString("utf8"), from byte i on
RECURSIVE Utf8DecodeFrom(_, _)
Utf8DecodeFrom(buf, i) ==
    IF i > Len(buf) THEN <<>>
    ELSE LET step == Utf8Step(buf, i) IN <<step.char>> \o Utf8DecodeFrom(buf, step.next)

Utf8Decode(buf) == Utf8DecodeFrom(buf, 1)

(***************************************************************************)
(* JSON values and JSON text: JSON.stringify and JSON.parse.               *)
(* A value is <<kind, number, text, members>>; the members of an object    *)
(* are <<key, value>> pairs in insertion order, those of an array have an  *)
(* empty key.  Numbers are integers.                                       *)
(***************************************************************************)
JNull == <<"null", 0, <<>>, <<>>>>
JBool(b) == <<"bool", IF b THEN 1 ELSE 0, <<>>, <<>>>>
JNum(n) == <<"num", n, <<>>, <<>>>>
JStr(text) == <<"str", 0, text, <<>>>>
JArr(vals) == <<"arr", 0, <<>>, [i \in 1..Len(vals) |-> <<<<>>, vals[i]>>]>>
JObj(members) == <<"obj", 0, <<>>, members>>

RECURSIVE Digits(_)
Digits(n) ==
    IF n < 10 THEN <<HexDigits[n + 1]>>
    ELSE Digits(n \div 10) \o <<HexDigits[(n % 10) + 1]>>

NumText(n) == IF n < 0 THEN <<"-">> \o Digits(0 - n) ELSE Digits(n)

RECURSIVE EscapeChars(_)
EscapeChars(text) ==
    IF Len(text) = 0 THEN <<>>
    ELSE LET c == Head(text) IN
         (CASE c = "\"" -> <<"\\", "\"">>
            [] c = "\\" -> <<"\\", "\\">>
            [] c = "\n" -> <<"\\", "n">>
            [] c = "\t" -> <<"\\", "t">>
            [] c = "\r" -> <<"\\", "r">>
            [] OTHER -> <<c>>) \o EscapeChars(Tail(text))

Quote(text) == <<"\"">> \o EscapeChars(text) \o <<"\"">>

\* JSON.stringify(value): no white space, members in insertion order
RECURSIVE JsonStringify(_), StringifyMembers(_, _, _)
JsonStringify(v) ==
    CASE v[1] = "null" -> <<"n", "u", "l", "l">>
      [] v[1] = "bool" -> IF v[2] = 1 THEN <<"t", "r", "u", "e">>
                                      ELSE <<"f", "a", "l", "s", "e">>
      [] v[1] = "num" -> NumText(v[2])
      [] v[1] = "str" -> Quote(v[3])
      [] v[1] = "arr" -> <<"[">> \o StringifyMembers(v[4], 1, FALSE) \o <<"]">>
      [] v[1] = "obj" -> <<"{">> \o StringifyMembers(v[4], 1, TRUE) \o <<"}">>

StringifyMembers(members, i, keyed) ==
    IF i > Len(members) THEN <<>>
    ELSE (IF i > 1 THEN <<",">> ELSE <<>>)
         \o (IF keyed THEN Quote(members[i][1]) \o <<":">> ELSE <<>>)
         \o JsonStringify(members[i][2])
         \o StringifyMembers(members, i + 1, keyed)

ParseFail == [ok |-> FALSE, val |-> JNull, pos |-> 0]
ParseOk(v, p) == [ok |-> TRUE, val |-> v, pos |-> p]

IsWhite(c) == c \in {" ", "\t", "\n", "\r"}

RECURSIVE SkipWhite(_, _)
SkipWhite(s, i) ==
    IF i <= Len(s) /\ IsWhite(s[i]) THEN SkipWhite(s, i + 1) ELSE i

IsDigit(c) == HexVal(c) >= 0 /\ HexVal(c) <= 9

\* the characters of a string literal after its opening quote
RECURSIVE ScanString(_, _, _)
ScanString(s, i, acc) ==
    IF i > Len(s) THEN ParseFail
    ELSE LET c == s[i] IN
         IF c = "\"" THEN ParseOk(JStr(acc), i + 1)
         ELSE IF c = "\\" THEN
              IF i + 1 > Len(s) THEN ParseFail
              ELSE LET e == s[i + 1] IN
                   IF e \in {"\"", "\\", "/"} THEN ScanString(s, i + 2, Append(acc, e))
                   ELSE IF e = "n" THEN ScanString(s, i + 2, Append(acc, "\n"))
                   ELSE IF e = "t" THEN ScanString(s, i + 2, Append(acc, "\t"))
                   ELSE IF e = "r" THEN ScanString(s, i + 2, Append(acc, "\r"))
                   ELSE ParseFail
         ELSE IF c \in {Control, "\t", "\n", "\r"} THEN ParseFail
         ELSE ScanString(s, i + 1, Append(acc, c))

RECURSIVE ScanDigits(_, _, _)
ScanDigits(s, i, n) ==
    IF i <= Len(s) /\ IsDigit(s[i]) THEN ScanDigits(s, i + 1, 10 * n + HexVal(s[i]))
    ELSE ParseOk(JNum(n), i)

ParseNumber(s, i) ==
    LET neg == s[i] = "-"
        j == IF neg THEN i + 1 ELSE i
    IN  IF j > Len(s) \/ ~IsDigit(s[j]) THEN ParseFail
        ELSE LET r == IF s[j] = "0" THEN ParseOk(JNum(0), j + 1)
                      ELSE ScanDigits(s, j, 0)
             IN  IF neg THEN ParseOk(JNum(0 - r.val[2]), r.pos) ELSE r

ParseWord(s, i, word, v) ==
    IF i + Len(word) - 1 <= Len(s) /\ \A k \in 1..Len(word) : s[i + k - 1] = word[k]
    THEN ParseOk(v, i + Len(word))
    ELSE ParseFail

\* a repeated key keeps its first position and takes the last value
PutMember(members, key, v) ==
    IF \E k \in 1..Len(members) : members[k][1] = key
    THEN [k \in 1..Len(members) |->
            IF members[k][1] = key THEN <<key, v>> ELSE members[k]]
    ELSE Append(members, <<key, v>>)

RECURSIVE ParseValue(_, _), ParseArray(_, _, _, _), ParseObject(_, _, _, _)
ParseValue(s, i) ==
    LET j == SkipWhite(s, i) IN
    IF j > Len(s) THEN ParseFail
    ELSE CASE s[j] = "{" -> ParseObject(s, j + 1, <<>>, TRUE)
           [] s[j] = "[" -> ParseArray(s, j + 1, <<>>, TRUE)
           [] s[j] = "\"" -> ScanString(s, j + 1, <<>>)
           [] s[j] = "-" \/ IsDigit(s[j]) -> ParseNumber(s, j)
           [] s[j] = "t" -> ParseWord(s, j, <<"t", "r", "u", "e">>, JBool(TRUE))
           [] s[j] = "f" -> ParseWord(s, j, <<"f", "a", "l", "s", "e">>, JBool(FALSE))
           [] s[j] = "n" -> ParseWord(s, j, <<"n", "u", "l", "l">>, JNull)
           [] OTHER -> ParseFail

ParseArray(s, i, acc, first) ==
    LET j == SkipWhite(s, i) IN
    IF first /\ j <= Len(s) /\ s[j] = "]" THEN ParseOk(JArr(acc), j + 1)
    ELSE LET r == ParseValue(s, j) IN
         IF ~r.ok THEN ParseFail
         ELSE LET k == SkipWhite(s, r.pos) IN
              IF k > Len(s) THEN ParseFail
              ELSE IF s[k] = "," THEN ParseArray(s, k + 1, Append(acc, r.val), FALSE)
              ELSE IF s[k] = "]" THEN ParseOk(JArr(Append(acc, r.val)), k + 1)
              ELSE ParseFail

ParseObject(s, i, acc, first) ==
    LET j == SkipWhite(s, i) IN
    IF first /\ j <= Len(s) /\ s[j] = "}" THEN ParseOk(JObj(acc), j + 1)
    ELSE IF j > Len(s) \/ s[j] # "\"" THEN ParseFail
    ELSE LET key == ScanString(s, j + 1, <<>>) IN
         IF ~key.ok THEN ParseFail
         ELSE LET c == SkipWhite(s, key.pos) IN
              IF c > Len(s) \/ s[c] # ":" THEN ParseFail
              ELSE LET r == ParseValue(s, c + 1) IN
                   IF ~r.ok THEN ParseFail
                   ELSE LET k == SkipWhite(s, r.pos)
                            more == PutMember(acc, key.val[3], r.val)
                        IN  IF k > Len(s) THEN ParseFail
                            ELSE IF s[k] = "," THEN ParseObject(s, k + 1, more, FALSE)
                            ELSE IF s[k] = "}" THEN ParseOk(JObj(more), k + 1)
                            ELSE ParseFail

\* JSON.parse(text): one value, with nothing but white space after it
JsonParse(text) ==
    LET r == ParseValue(text, 1) IN
    IF r.ok /\ SkipWhite(text, r.pos) > Len(text) THEN r ELSE ParseFail

(***************************************************************************)
(* Node's crypto module.                                                   *)
(*                                                                         *)
(* randomBytes and randomUUID: the generator never repeats an output; an   *)
(* output is determined by the number of the draw that produced it.        *)
(*                                                                         *)
(* aes-256-gcm: the keystream of a (key, iv) pair is chosen when the pair  *)
(* is first used and kept in gcm; the ciphertext is the plaintext XOR the  *)
(* keystream; a tag verifies only if the cipher produced it for the same   *)
(* key, iv and ciphertext.                                                 *)
(***************************************************************************)
randomBytes(n, draw) == [i \in 1..n |-> (149 * draw + 31 * i) % 256]

\* faulty variant, for sensitivity analysis: every record gets the same id
randomUUIDFixed(draw) == "uuid-0"

randomUUID(draw) == "uuid-" \o ToString(draw)

\* new Date(t).toISOString() for the instant t, in milliseconds after the
\* start of the model's clock, within the first minute
Pad(n, width) ==
    IF width = 3 /\ n < 10 THEN "00" \o ToString(n)
    ELSE IF (width = 3 /\ n < 100) \/ (width = 2 /\ n < 10) THEN "0" \o ToString(n)
    ELSE ToString(n)
toISOString(t) ==
    "1970-01-01T00:00:" \o Pad((t \div 1000) % 60, 2) \o "." \o Pad(t % 1000, 3) \o "Z"

\* the keystreams the cipher can have for one (key, iv) pair
KeystreamSeeds == {53, 202}

GcmKeystream(seed, n) == [i \in 1..n |-> (seed + 61 * i) % 256]

RECURSIVE XorBits(_, _)
XorBits(a, b) ==
    IF a = 0 THEN b
    ELSE IF b = 0 THEN a
    ELSE ((a + b) % 2) + 2 * XorBits(a \div 2, b \div 2)

XorTable == [a \in 0..15 |-> [b \in 0..15 |-> XorBits(a, b)]]

\* the XOR of two bytes
Xor(a, b) == 16 * XorTable[a \div 16][b \div 16] + XorTable[a % 16][b % 16]

XorBytes(buf, ks) == [i \in 1..Len(buf) |-> Xor(buf[i], ks[i])]

\* the keystream seeds an encryption under (key, iv) can find
GcmSeeds(g, key, iv) ==
    LET used == {e \in g : e.key = key /\ e.iv = iv} IN
    IF used = {} THEN KeystreamSeeds ELSE {e.seed : e \in used}

GcmTag(g, key, iv, ct) ==
    LET same == {e \in g : e.key = key /\ e.iv = iv /\ e.ct = ct} IN
    IF same # {} THEN (CHOOSE e \in same : TRUE).tag
    ELSE [i \in 1..16 |-> (101 * (Cardinality(g) + 1) + 7 * i) % 256]

\* createCipheriv("aes-256-gcm", key, iv), update(pt), final(), getAuthTag()
GcmEncrypt(g, key, iv, pt, seed) ==
    LET ct == XorBytes(pt, GcmKeystream(seed, Len(pt)))
        tag == GcmTag(g, key, iv, ct)
    IN  [ct |-> ct, tag |-> tag,
         gcm |-> g \cup {[key |-> key, iv |-> iv, seed |-> seed, ct |-> ct, tag |-> tag]}]

\* faulty variant, for sensitivity analysis: tags verify only until a third encryption is performed
GcmDecryptFirstTwo(g, key, iv, ct, tag) ==
    LET hit == {e \in g : e.key = key /\ e.iv = iv /\ e.ct = ct /\ e.tag = tag} IN
    IF hit = {} \/ Cardinality(g) > 2 THEN [ok |-> FALSE, pt |-> <<>>]
    ELSE [ok |-> TRUE,
          pt |-> XorBytes(ct, GcmKeystream((CHOOSE e \in hit : TRUE).seed, Len(ct)))]

\* createDecipheriv("aes-256-gcm", key, iv), setAuthTag(tag), update(ct),
\* final(): final() throws unless the tag verifies
GcmDecrypt(g, key, iv, ct, tag) ==
    LET hit == {e \in g : e.key = key /\ e.iv = iv /\ e.ct = ct /\ e.tag = tag} IN
    IF hit = {} THEN [ok |-> FALSE, pt |-> <<>>]
    ELSE [ok |-> TRUE,
          pt |-> XorBytes(ct, GcmKeystream((CHOOSE e \in hit : TRUE).seed, Len(ct)))]

(***************************************************************************)
(* packages/crypto/src/index.ts                                            *)
(***************************************************************************)
\* process.env.MASTER_KEY_HEX: unset, or a text
EnvUnset == [defined |-> FALSE, value |-> <<>>]
EnvText(text) == [defined |-> TRUE, value |-> text]

\* faulty variant, for sensitivity analysis: a built-in key stands in for the environment's value
getMasterKeyDefault(e) ==
    [ok |-> TRUE, error |-> "",
     key |-> [i \in 1..32 |-> (16 * ((2 * i - 2) % 16) + ((2 * i - 1) % 16))]]

\* faulty variant, for sensitivity analysis: the length is checked before the hex form
getMasterKeyLengthFirst(e) ==
    IF ~e.defined \/ Len(e.value) = 0
    THEN [ok |-> FALSE, key |-> <<>>,
          error |-> "MASTER_KEY_HEX environment variable is missing"]
    ELSE LET masterKey == BufferFromHex(e.value) IN
         IF Len(masterKey) # 32
         THEN [ok |-> FALSE, key |-> <<>>,
               error |-> "MASTER_KEY_HEX must decode to exactly 32 bytes, got "
                         \o ToString(Len(masterKey)) \o " bytes"]
         ELSE IF ~HexPattern(e.value)
         THEN [ok |-> FALSE, key |-> <<>>,
               error |-> "MASTER_KEY_HEX must be a valid hex string"]
         ELSE [ok |-> TRUE, key |-> masterKey, error |-> ""]

getMasterKey(e) ==
    IF ~e.defined \/ Len(e.value) = 0
    THEN [ok |-> FALSE, key |-> <<>>,
          error |-> "MASTER_KEY_HEX environment variable is missing"]
    ELSE IF ~HexPattern(e.value)
    THEN [ok |-> FALSE, key |-> <<>>,
          error |-> "MASTER_KEY_HEX must be a valid hex string"]
    ELSE LET masterKey == BufferFromHex(e.value) IN
         IF Len(masterKey) # 32
         THEN [ok |-> FALSE, key |-> <<>>,
               error |-> "MASTER_KEY_HEX must decode to exactly 32 bytes, got "
                         \o ToString(Len(masterKey)) \o " bytes"]
         ELSE [ok |-> TRUE, key |-> masterKey, error |-> ""]

\* faulty variant, for sensitivity analysis: the decoded length is not checked
validateHexFormOnly(hex, expectedBytes, fieldName) ==
    IF ~HexPattern(hex) THEN fieldName \o " must be a valid hex string" ELSE ""

\* faulty variant, for sensitivity analysis: the hex form is not checked
validateHexLengthOnly(hex, expectedBytes, fieldName) ==
    LET buffer == BufferFromHex(hex) IN
    IF Len(buffer) # expectedBytes
    THEN fieldName \o " must be " \o ToString(expectedBytes) \o " bytes, got "
         \o ToString(Len(buffer)) \o " bytes"
    ELSE ""

\* the message validateHex throws, "" when it returns
validateHex(hex, expectedBytes, fieldName) ==
    IF ~HexPattern(hex) THEN fieldName \o " must be a valid hex string"
    ELSE LET buffer == BufferFromHex(hex) IN
         IF Len(buffer) # expectedBytes
         THEN fieldName \o " must be " \o ToString(expectedBytes) \o " bytes, got "
              \o ToString(Len(buffer)) \o " bytes"
         ELSE ""

NoRecord ==
    [id |-> "", partyId |-> "", createdAt |-> "",
     payload_nonce |-> <<>>, payload_ct |-> <<>>, payload_tag |-> <<>>,
     dek_wrap_nonce |-> <<>>, dek_wrapped |-> <<>>, dek_wrap_tag |-> <<>>,
     alg |-> "", mk_version |-> 0]

\* faulty variant, for sensitivity analysis: one fixed nonce for every payload
newPayloadNonceFixed(draw) == randomBytes(12, 0)

\* faulty variant, for sensitivity analysis: a nonce of 11 bytes wraps the DEK
newDekWrapNonceShort(draw) == randomBytes(11, draw + 3)

\* Step 1: the data encryption key, and the two nonces, of the seal that
\* starts after `draw` draws
newDek(draw) == randomBytes(32, draw + 1)
newPayloadNonce(draw) == randomBytes(12, draw + 2)
newDekWrapNonce(draw) == randomBytes(12, draw + 3)

\* faulty variant, for sensitivity analysis: a built-in key is used when the loader fails
encryptEnvelopeDefaultKey(partyId, payload, e, g, draw, now, seedP, seedW) ==
    LET mk == IF getMasterKey(e).ok THEN getMasterKey(e) ELSE getMasterKeyDefault(e)
        dek == newDek(draw)
        payloadNonce == newPayloadNonce(draw)
        payloadCipher == GcmEncrypt(g, dek, payloadNonce,
                                    Utf8Encode(JsonStringify(payload)), seedP)
        dekWrapNonce == newDekWrapNonce(draw)
        dekCipher == GcmEncrypt(payloadCipher.gcm, mk.key, dekWrapNonce, dek, seedW)
    IN  [ok |-> TRUE, error |-> "", gcm |-> dekCipher.gcm, draws |-> draw + 4,
         record |-> [id |-> randomUUID(draw + 4), partyId |-> partyId,
                     createdAt |-> toISOString(now),
                     payload_nonce |-> BufferToHex(payloadNonce),
                     payload_ct |-> BufferToHex(payloadCipher.ct),
                     payload_tag |-> BufferToHex(payloadCipher.tag),
                     dek_wrap_nonce |-> BufferToHex(dekWrapNonce),
                     dek_wrapped |-> BufferToHex(dekCipher.ct),
                     dek_wrap_tag |-> BufferToHex(dekCipher.tag),
                     alg |-> "AES-256-GCM", mk_version |-> 1]]

\* encryptEnvelope(partyId, payload) with MASTER_KEY_HEX = e, the cipher in
\* state g, after `draw` draws from the generator, at time `now`; seedP and
\* seedW are the keystreams the cipher has for the two encryptions
encryptEnvelope(partyId, payload, e, g, draw, now, seedP, seedW) ==
    LET mk == getMasterKey(e) IN
    IF ~mk.ok
    THEN [ok |-> FALSE, error |-> mk.error, record |-> NoRecord, gcm |-> g, draws |-> draw]
    ELSE LET dek == newDek(draw)
             payloadJson == JsonStringify(payload)
             payloadBuffer == Utf8Encode(payloadJson)
             payloadNonce == newPayloadNonce(draw)
             payloadCipher == GcmEncrypt(g, dek, payloadNonce, payloadBuffer, seedP)
             dekWrapNonce == newDekWrapNonce(draw)
             dekCipher == GcmEncrypt(payloadCipher.gcm, mk.key, dekWrapNonce, dek, seedW)
             record == [id |-> randomUUID(draw + 4),
                        partyId |-> partyId,
                        createdAt |-> toISOString(now),
                        payload_nonce |-> BufferToHex(payloadNonce),
                        payload_ct |-> BufferToHex(payloadCipher.ct),
                        payload_tag |-> BufferToHex(payloadCipher.tag),
                        dek_wrap_nonce |-> BufferToHex(dekWrapNonce),
                        dek_wrapped |-> BufferToHex(dekCipher.ct),
                        dek_wrap_tag |-> BufferToHex(dekCipher.tag),
                        alg |-> "AES-256-GCM",
                        mk_version |-> 1]
         IN  [ok |-> TRUE, error |-> "", record |-> record, gcm |-> dekCipher.gcm,
              draws |-> draw + 4]

\* faulty variant, for sensitivity analysis: payload_ct is checked before the other fields
validateRecordCtFirst(record) ==
    LET checks == << IF ~HexPattern(record.payload_ct)
                     THEN "payload_ct must be a valid hex string" ELSE "",
                     validateHex(record.payload_nonce, 12, "payload_nonce"),
                     validateHex(record.payload_tag, 16, "payload_tag"),
                     validateHex(record.dek_wrap_nonce, 12, "dek_wrap_nonce"),
                     validateHex(record.dek_wrapped, 32, "dek_wrapped"),
                     validateHex(record.dek_wrap_tag, 16, "dek_wrap_tag") >>
        thrown == {k \in 1..6 : checks[k] # ""}
    IN  IF thrown = {} THEN ""
        ELSE "Validation failed: " \o checks[CHOOSE k \in thrown : \A j \in thrown : k <= j]

\* the record a holder of the master key builds with the cipher calls of
\* encryptEnvelope around bytes of its own choice, in place of the bytes of
\* JSON.stringify(payload)
sealBytes(partyId, payloadBuffer, e, g, draw, now, seedP, seedW) ==
    LET mk == getMasterKey(e) IN
    IF ~mk.ok
    THEN [ok |-> FALSE, error |-> mk.error, record |-> NoRecord, gcm |-> g, draws |-> draw]
    ELSE LET dek == newDek(draw)
             payloadNonce == newPayloadNonce(draw)
             payloadCipher == GcmEncrypt(g, dek, payloadNonce, payloadBuffer, seedP)
             dekWrapNonce == newDekWrapNonce(draw)
             dekCipher == GcmEncrypt(payloadCipher.gcm, mk.key, dekWrapNonce, dek, seedW)
             record == [id |-> randomUUID(draw + 4),
                        partyId |-> partyId,
                        createdAt |-> toISOString(now),
                        payload_nonce |-> BufferToHex(payloadNonce),
                        payload_ct |-> BufferToHex(payloadCipher.ct),
                        payload_tag |-> BufferToHex(payloadCipher.tag),
                        dek_wrap_nonce |-> BufferToHex(dekWrapNonce),
                        dek_wrapped |-> BufferToHex(dekCipher.ct),
                        dek_wrap_tag |-> BufferToHex(dekCipher.tag),
                        alg |-> "AES-256-GCM",
                        mk_version |-> 1]
         IN  [ok |-> TRUE, error |-> "", record |-> record, gcm |-> dekCipher.gcm,
              draws |-> draw + 4]

\* Step 1 of decryptEnvelope: the message of the first check that throws,
\* wrapped by the catch; "" when every check passes
validateRecord(record) ==
    LET checks == << validateHex(record.payload_nonce, 12, "payload_nonce"),
                     validateHex(record.payload_tag, 16, "payload_tag"),
                     validateHex(record.dek_wrap_nonce, 12, "dek_wrap_nonce"),
                     validateHex(record.dek_wrapped, 32, "dek_wrapped"),
                     validateHex(record.dek_wrap_tag, 16, "dek_wrap_tag"),
                     IF ~HexPattern(record.payload_ct)
                     THEN "payload_ct must be a valid hex string" ELSE "" >>
        thrown == {k \in 1..6 : checks[k] # ""}
    IN  IF thrown = {} THEN ""
        ELSE "Validation failed: " \o checks[CHOOSE k \in thrown : \A j \in thrown : k <= j]

Thrown(message, steps) ==
    [ok |-> FALSE, error |-> message, value |-> JNull, steps |-> steps]
Returned(v, steps) ==
    [ok |-> TRUE, error |-> "", value |-> v, steps |-> steps]

\* faulty variant, for sensitivity analysis: the tag of the wrapped DEK is not verified
unwrapDekAnyTag(record, masterKey, g) ==
    LET dekWrapNonce == BufferFromHex(record.dek_wrap_nonce)
        dekWrapped == BufferFromHex(record.dek_wrapped)
        same == {e \in g : e.key = masterKey /\ e.iv = dekWrapNonce /\ e.ct = dekWrapped}
    IN  IF same = {} THEN [ok |-> TRUE, pt |-> dekWrapped]
        ELSE GcmDecrypt(g, masterKey, dekWrapNonce, dekWrapped, (CHOOSE e \in same : TRUE).tag)

\* Step 2: unwrap the DEK with the master key
unwrapDek(record, masterKey, g) ==
    LET dekWrapNonce == BufferFromHex(record.dek_wrap_nonce)
        dekWrapped == BufferFromHex(record.dek_wrapped)
        dekWrapTag == BufferFromHex(record.dek_wrap_tag)
    IN  GcmDecrypt(g, masterKey, dekWrapNonce, dekWrapped, dekWrapTag)

\* faulty variant, for sensitivity analysis: the payload is decrypted with the nonce of the DEK wrapping
decryptPayloadWrapNonce(record, dek, g) ==
    LET payloadNonce == BufferFromHex(record.dek_wrap_nonce)
        payloadCt == BufferFromHex(record.payload_ct)
        payloadTag == BufferFromHex(record.payload_tag)
    IN  GcmDecrypt(g, dek, payloadNonce, payloadCt, payloadTag)

\* faulty variant, for sensitivity analysis: the tag of the payload is not verified
decryptPayloadAnyTag(record, dek, g) ==
    LET payloadNonce == BufferFromHex(record.payload_nonce)
        payloadCt == BufferFromHex(record.payload_ct)
        same == {e \in g : e.key = dek /\ e.iv = payloadNonce /\ e.ct = payloadCt}
    IN  IF same = {} THEN [ok |-> TRUE, pt |-> payloadCt]
        ELSE GcmDecrypt(g, dek, payloadNonce, payloadCt, (CHOOSE e \in same : TRUE).tag)

\* Step 3: decrypt the payload with the unwrapped DEK
decryptPayload(record, dek, g) ==
    LET payloadNonce == BufferFromHex(record.payload_nonce)
        payloadCt == BufferFromHex(record.payload_ct)
        payloadTag == BufferFromHex(record.payload_tag)
    IN  GcmDecrypt(g, dek, payloadNonce, payloadCt, payloadTag)

\* faulty variant, for sensitivity analysis: text that does not parse is returned as a string
parsePayloadLenient(payloadBuffer) ==
    LET payloadJson == Utf8Decode(payloadBuffer)
        r == JsonParse(payloadJson)
    IN  IF r.ok THEN r ELSE ParseOk(JStr(payloadJson), Len(payloadJson) + 1)

\* Step 4: parse the decrypted bytes as JSON
parsePayload(payloadBuffer) ==
    LET payloadJson == Utf8Decode(payloadBuffer) IN JsonParse(payloadJson)

\* faulty variant, for sensitivity analysis: after a failed unwrap the payload is decrypted with the wrapped bytes as key
openRecordDecryptAnyway(record, masterKey, g, steps) ==
    LET dekDecipher == unwrapDek(record, masterKey, g)
        dek == IF dekDecipher.ok THEN dekDecipher.pt ELSE BufferFromHex(record.dek_wrapped)
        payloadDecipher == decryptPayload(record, dek, g)
    IN  IF ~payloadDecipher.ok
        THEN Thrown("Payload decryption failed: invalid auth tag or tampered ciphertext",
                    steps \o <<"unwrap", "decrypt">>)
        ELSE LET parsed == parsePayload(payloadDecipher.pt) IN
             IF ~parsed.ok
             THEN Thrown("Failed to parse decrypted payload as JSON",
                         steps \o <<"unwrap", "decrypt", "parse">>)
             ELSE Returned(parsed.val, steps \o <<"unwrap", "decrypt", "parse">>)

\* faulty variant, for sensitivity analysis: the unwrap error tells a wrong tag from other causes
openRecordCauseInMessage(record, masterKey, g, steps) ==
    LET dekDecipher == unwrapDek(record, masterKey, g)
        known == {e \in g : /\ e.key = masterKey
                            /\ e.iv = BufferFromHex(record.dek_wrap_nonce)
                            /\ e.ct = BufferFromHex(record.dek_wrapped)}
    IN  IF ~dekDecipher.ok
        THEN Thrown(IF known # {} THEN "DEK unwrapping failed: invalid auth tag"
                    ELSE "DEK unwrapping failed: tampered data",
                    steps \o <<"unwrap">>)
        ELSE LET payloadDecipher == decryptPayload(record, dekDecipher.pt, g) IN
             IF ~payloadDecipher.ok
             THEN Thrown("Payload decryption failed: invalid auth tag or tampered ciphertext",
                         steps \o <<"unwrap", "decrypt">>)
             ELSE LET parsed == parsePayload(payloadDecipher.pt) IN
                  IF ~parsed.ok
                  THEN Thrown("Failed to parse decrypted payload as JSON",
                              steps \o <<"unwrap", "decrypt", "parse">>)
                  ELSE Returned(parsed.val, steps \o <<"unwrap", "decrypt", "parse">>)

\* Steps 2 to 4 of decryptEnvelope, with the master key loaded
openRecord(record, masterKey, g, steps) ==
    LET dekDecipher == unwrapDek(record, masterKey, g) IN
    IF ~dekDecipher.ok
    THEN Thrown("DEK unwrapping failed: invalid auth tag or tampered data",
                steps \o <<"unwrap">>)
    ELSE LET payloadDecipher == decryptPayload(record, dekDecipher.pt, g) IN
         IF ~payloadDecipher.ok
         THEN Thrown("Payload decryption failed: invalid auth tag or tampered ciphertext",
                     steps \o <<"unwrap", "decrypt">>)
         ELSE LET parsed == parsePayload(payloadDecipher.pt) IN
              IF ~parsed.ok
              THEN Thrown("Failed to parse decrypted payload as JSON",
                          steps \o <<"unwrap", "decrypt", "parse">>)
              ELSE Returned(parsed.val, steps \o <<"unwrap", "decrypt", "parse">>)

\* decryptEnvelope(record) with MASTER_KEY_HEX = e and the cipher in state
\* g; steps lists the steps the call entered, in order
decryptEnvelope(record, e, g) ==
    LET mk == getMasterKey(e) IN
    IF ~mk.ok THEN Thrown(mk.error, <<"getMasterKey">>)
    ELSE LET invalid == validateRecord(record) IN
         IF invalid # "" THEN Thrown(invalid, <<"getMasterKey", "validate">>)
         ELSE openRecord(record, mk.key, g, <<"getMasterKey", "validate">>)

\* faulty variant, for sensitivity analysis: the wrapped DEK is cleared once it is unwrapped
decryptEnvelopeArgumentCleared(record, e, g) == [record EXCEPT !.dek_wrapped = <<>>]

\* the argument of decryptEnvelope(record) after the call: the function reads
\* the fields of record and assigns to none, on every path
decryptEnvelopeArgument(record, e, g) == record

(***************************************************************************)
(* The callers: the values MASTER_KEY_HEX takes, the requests that are     *)
(* sealed, and the ways a sealed record is altered before it is opened.    *)
(***************************************************************************)
UpperChar(c) ==
    CASE c = "a" -> "A" [] c = "b" -> "B" [] c = "c" -> "C"
      [] c = "d" -> "D" [] c = "e" -> "E" [] c = "f" -> "F" [] OTHER -> c

RECURSIVE Repeat(_, _)
Repeat(text, n) == IF n = 0 THEN <<>> ELSE text \o Repeat(text, n - 1)

\* the key of index.test.ts, and another key
KeyAHex == Repeat(<<"0", "1", "2", "3", "4", "5", "6", "7",
                    "8", "9", "a", "b", "c", "d", "e", "f">>, 4)
KeyBHex == Repeat(<<"f", "e", "d", "c", "b", "a", "9", "8",
                    "7", "6", "5", "4", "3", "2", "1", "0">>, 4)

ValidEnvs == {EnvText(KeyAHex), EnvText(KeyBHex)}

\* the values of Spec: two keys, no value, a 64-character value with a
\* character that is no hex digit, a value of 62 hex digits
EnvValues ==
    ValidEnvs \cup
    { EnvUnset,
      EnvText([KeyAHex EXCEPT ![7] = "g"]),
      EnvText(SubSeq(KeyAHex, 1, 62)) }

\* the values of SpecLoader: also the empty text, values with several
\* defects, values of 63, 65 and 66 hex digits, and key A in upper case
LoaderEnvs ==
    EnvValues \cup
    { EnvText(<<>>),
      EnvText(<<"x", "y", "z">>),
      EnvText(<<"g">> \o SubSeq(KeyAHex, 1, 61)),
      EnvText(SubSeq(KeyAHex, 1, 62) \o <<"z", "z", "z", "z">>),
      EnvText(SubSeq(KeyAHex, 1, 63)),
      EnvText(KeyAHex \o <<"0">>),
      EnvText(KeyAHex \o <<"0", "0">>),
      EnvText([i \in 1..64 |-> UpperChar(KeyAHex[i])]) }

PayloadEmpty == JObj(<<>>)
\* {"amount":100,"meta":{"tags":["é\"\\",true,null,-7]}}
PayloadNested ==
    JObj(<< <<<<"a", "m", "o", "u", "n", "t">>, JNum(100)>>,
            <<<<"m", "e", "t", "a">>,
              JObj(<< <<<<"t", "a", "g", "s">>,
                        JArr(<<JStr(<<EAcute, "\"", "\\">>), JBool(TRUE), JNull, JNum(-7)>>)>> >>)>> >>)

\* [0,""] and the scalar 5: encryptEnvelope takes any JSON value
PayloadArray == JArr(<<JNum(0), JStr(<<>>)>>)
PayloadScalar == JNum(5)

Requests ==
    { <<"party_123", PayloadEmpty>>, <<"", PayloadNested>>,
      <<"acct/7", PayloadArray>>, <<"party_123", PayloadScalar>> }

HexFields ==
    {"payload_nonce", "payload_ct", "payload_tag",
     "dek_wrap_nonce", "dek_wrapped", "dek_wrap_tag"}

Mutations ==
    {"flipFirst", "flipLast", "upper", "append1", "append2", "drop1", "drop2",
     "nonhexFirst", "nonhexLast", "nonhexShort", "empty", "other"}

\* the text of a hex field after mutation m; other is the same field of
\* another sealed record
Mutate(text, m, other) ==
    CASE m = "flipFirst" -> [text EXCEPT ![1] = HexDigits[((HexVal(@) + 8) % 16) + 1]]
      [] m = "flipLast" -> [text EXCEPT ![Len(text)] = HexDigits[((HexVal(@) + 1) % 16) + 1]]
      [] m = "upper" -> [i \in 1..Len(text) |-> UpperChar(text[i])]
      [] m = "append1" -> Append(text, "0")
      [] m = "append2" -> text \o <<"0", "0">>
      [] m = "drop1" -> SubSeq(text, 1, Len(text) - 1)
      [] m = "drop2" -> SubSeq(text, 1, Len(text) - 2)
      [] m = "nonhexFirst" -> [text EXCEPT ![1] = "g"]
      [] m = "nonhexLast" -> [text EXCEPT ![Len(text)] = "z"]
      [] m = "nonhexShort" -> <<"g">> \o SubSeq(text, 2, Len(text) - 2)
      [] m = "empty" -> <<>>
      [] m = "other" -> other
      [] m = "upperFirst" ->
            LET letters == {i \in 1..Len(text) : UpperChar(text[i]) # text[i]} IN
            IF letters = {} THEN text
            ELSE [text EXCEPT ![CHOOSE i \in letters : \A j \in letters : i <= j] =
                                  UpperChar(@)]

(***************************************************************************)
(* The state machine.                                                      *)
(***************************************************************************)
VARIABLES
    env,      \* process.env.MASTER_KEY_HEX
    gcm,      \* the encryptions the cipher has performed
    draws,    \* the draws made from the random generator
    now,      \* the clock
    sealed,   \* the records encryptEnvelope has returned, each with its
              \* request, the master key it was sealed under, its DEK and
              \* the cipher as it was when the call returned
    last,     \* the last call of the crypto package and its outcome
    server,   \* the API server that runs: "memory" (apps/api/src/index.ts)
              \* or "prisma" (apps/api/api/index.ts, the Prisma server)
    store,    \* txStore, or the rows of the transaction table
    http,     \* the HTTP request in progress and what its handler did
    keyLog,   \* the values MASTER_KEY_HEX was changed to, each with the
              \* number of records sealed before the change
    requests, \* the HTTP requests the server handles concurrently: those
              \* that wait for the database, and those answered
    ui        \* the state of the TransactionUI component and its handlers
              \* in flight

vars == <<env, gcm, draws, now, sealed, last, server, store, http, keyLog, requests, ui>>

NoOutcome == [ok |-> FALSE, error |-> "", value |-> JNull, steps |-> <<>>]

Idle ==
    [op |-> "none", env |-> EnvUnset, base |-> 0, input |-> NoRecord,
     after |-> NoRecord, out |-> NoOutcome]

\* no request in progress
NoHttp ==
    [route |-> "none", id |-> "", body |-> JNull, status |-> 0,
     reply |-> [sent |-> {}, id |-> "", message |-> "", error |-> "", details |-> "",
                partyId |-> "", createdAt |-> "", payload |-> JNull, record |-> NoRecord],
     log |-> <<>>, calls |-> <<>>, before |-> {}]

\* no call and no request is in progress
Quiet == last = Idle /\ http = NoHttp

\* the text the payload field of the page starts with
DefaultPayloadText ==
    <<"{", "\n", " ", " ", "\"", "a", "m", "o", "u", "n", "t", "\"", ":", " ", "1", "0", "0",
      ",", "\n", " ", " ", "\"", "c", "u", "r", "r", "e", "n", "c", "y", "\"", ":", " ",
      "\"", "A", "E", "D", "\"", "\n", "}">>

\* useState<any>(null): no result
NoResult == [type |-> "null", data |-> JNull]

\* no button has been clicked
NoClick == [kind |-> "none", payload |-> <<>>]

\* the component as useState initialises it, on the page named; with the
\* state go the handlers in flight, whether a handler has run, the button
\* clicked last with the payload text it found, and the request the
\* handler started last has sent
UiStart(page) ==
    [page |-> page, partyId |-> <<>>, payload |-> DefaultPayloadText,
     transactionId |-> JStr(<<>>), lookupId |-> <<>>,
     result |-> NoResult, loading |-> FALSE, error |-> "",
     handlers |-> <<>>, ran |-> FALSE, clicked |-> NoClick, sent |-> <<>>]

Init ==
    /\ env \in EnvValues
    /\ gcm = {}
    /\ draws = 0
    /\ now = 0
    /\ sealed = <<>>
    /\ last = Idle
    /\ server = "memory"
    /\ store = {}
    /\ http = NoHttp
    /\ keyLog = <<>>
    /\ requests = {}
    /\ ui = UiStart("component")

\* the environment sets, changes or unsets MASTER_KEY_HEX
SetEnv(values) ==
    \E v \in values :
        /\ Quiet
        /\ v # env
        /\ env' = v
        /\ UNCHANGED <<gcm, draws, now, sealed, last, server, store, http, keyLog, requests, ui>>

\* the entry of `sealed` for the record r that a call on request
\* (partyId, payload) returned
SealedEntry(partyId, payload, r) ==
    [partyId |-> partyId, payload |-> payload, env |-> env,
     key |-> getMasterKey(env).key, dek |-> newDek(draws), gcm |-> r.gcm,
     record |-> r.record]

\* a call of encryptEnvelope(partyId, payload), while at most `limit`
\* records are sealed
EncryptCall(limit) ==
    \E req \in Requests :
        LET mk == getMasterKey(env) IN
        \E seedP \in GcmSeeds(gcm, newDek(draws), newPayloadNonce(draws)),
           seedW \in GcmSeeds(gcm, mk.key, newDekWrapNonce(draws)) :
            LET r == encryptEnvelope(req[1], req[2], env, gcm, draws, now, seedP, seedW) IN
            /\ Quiet
            /\ r.ok => Len(sealed) < limit
            /\ gcm' = r.gcm
            /\ draws' = r.draws
            /\ now' = IF r.ok THEN now + 1 ELSE now
            /\ sealed' = IF r.ok THEN Append(sealed, SealedEntry(req[1], req[2], r))
                         ELSE sealed
            /\ last' = [op |-> "encrypt", env |-> env,
                        base |-> IF r.ok THEN Len(sealed) + 1 ELSE 0,
                        input |-> NoRecord, after |-> NoRecord,
                        out |-> [ok |-> r.ok, error |-> r.error, value |-> JNull,
                                 steps |-> <<>>]]
            /\ UNCHANGED <<env, server, store, http, keyLog, requests, ui>>

\* sealed record i with hex field f altered by mutation m
Tampered(i, f, m) ==
    LET other == sealed[IF i = Len(sealed) THEN 1 ELSE i + 1].record IN
    [sealed[i].record EXCEPT ![f] = Mutate(@, m, other[f])]

\* faulty variant, for sensitivity analysis: the key decoded by the first seal is kept for later calls
DecryptOutcomeCachedKey(i, record) ==
    [op |-> "decrypt", env |-> env, base |-> i, input |-> record,
     after |-> decryptEnvelopeArgument(record, env, gcm),
     out |-> decryptEnvelope(record, sealed[1].env, gcm)]

\* what a call of decryptEnvelope(record), record made from sealed record
\* i, leaves in `last`
DecryptOutcome(i, record) ==
    [op |-> "decrypt", env |-> env, base |-> i, input |-> record,
     after |-> decryptEnvelopeArgument(record, env, gcm),
     out |-> decryptEnvelope(record, env, gcm)]

\* a call of decryptEnvelope(record) on sealed record i as it was returned
OpenCall ==
    \E i \in 1..Len(sealed) :
        /\ Quiet
        /\ last' = DecryptOutcome(i, sealed[i].record)
        /\ UNCHANGED <<env, gcm, draws, now, sealed, server, store, http, keyLog, requests, ui>>

\* a call of decryptEnvelope(record) on sealed record i with one hex field
\* altered
TamperedCall ==
    \E i \in 1..Len(sealed), f \in HexFields, m \in Mutations :
        /\ Quiet
        /\ last' = DecryptOutcome(i, Tampered(i, f, m))
        /\ UNCHANGED <<env, gcm, draws, now, sealed, server, store, http, keyLog, requests, ui>>

\* the caller takes the outcome of the call, the client the response of
\* the request; calls are synchronous, one after the other
Return ==
    /\ ~Quiet
    /\ last' = Idle
    /\ http' = NoHttp
    /\ UNCHANGED <<env, gcm, draws, now, sealed, server, store, keyLog, requests, ui>>

Next == SetEnv(EnvValues) \/ EncryptCall(MaxSeals) \/ OpenCall \/ TamperedCall \/ Return

Spec == Init /\ [][Next]_vars

\* two or more seals under one valid key, each record opened as returned
InitPair ==
    /\ env = EnvText(KeyAHex)
    /\ gcm = {}
    /\ draws = 0
    /\ now = 0
    /\ sealed = <<>>
    /\ last = Idle
    /\ server = "memory"
    /\ store = {}
    /\ http = NoHttp
    /\ keyLog = <<>>
    /\ requests = {}
    /\ ui = UiStart("component")

NextPair == EncryptCall(MaxPairSeals) \/ OpenCall \/ Return

SpecPair == InitPair /\ [][NextPair]_vars

\* the master key loader under every kind of MASTER_KEY_HEX value
InitLoader ==
    /\ env \in LoaderEnvs
    /\ gcm = {}
    /\ draws = 0
    /\ now = 0
    /\ sealed = <<>>
    /\ last = Idle
    /\ server = "memory"
    /\ store = {}
    /\ http = NoHttp
    /\ keyLog = <<>>
    /\ requests = {}
    /\ ui = UiStart("component")

NextLoader == SetEnv(LoaderEnvs) \/ EncryptCall(MaxSeals) \/ OpenCall \/ Return

SpecLoader == InitLoader /\ [][NextLoader]_vars

\* the hex fields in the order Step 1 of decryptEnvelope checks them
ValidationOrder ==
    <<"payload_nonce", "payload_tag", "dek_wrap_nonce", "dek_wrapped", "dek_wrap_tag",
      "payload_ct">>

\* the alterations of a record with several altered fields: other bytes of
\* the valid length, a wrong length, a character that is no hex digit, both
\* of these, all letters in upper case, one letter in upper case
DefectMutations == {"flipLast", "drop2", "nonhexFirst", "nonhexShort", "upper", "upperFirst"}

\* sealed record i with hex field f1 altered by m1 and hex field f2 by m2
TamperedTwice(i, f1, m1, f2, m2) ==
    [sealed[i].record EXCEPT ![f1] = Mutate(@, m1, <<>>), ![f2] = Mutate(@, m2, <<>>)]

\* a call of decryptEnvelope(record) on sealed record i with two hex fields
\* altered
DefectsCall ==
    \E i \in 1..Len(sealed), a \in 1..6, b \in 1..6,
       m1 \in DefectMutations, m2 \in DefectMutations :
        /\ Quiet
        /\ a < b
        /\ last' = DecryptOutcome(i, TamperedTwice(i, ValidationOrder[a], m1,
                                                    ValidationOrder[b], m2))
        /\ UNCHANGED <<env, gcm, draws, now, sealed, server, store, http, keyLog, requests, ui>>

\* calls on records with one and with two altered fields, under two keys
InitDefects ==
    /\ env \in ValidEnvs
    /\ gcm = {}
    /\ draws = 0
    /\ now = 0
    /\ sealed = <<>>
    /\ last = Idle
    /\ server = "memory"
    /\ store = {}
    /\ http = NoHttp
    /\ keyLog = <<>>
    /\ requests = {}
    /\ ui = UiStart("component")

NextDefects ==
    SetEnv(ValidEnvs) \/ EncryptCall(MaxSeals) \/ TamperedCall \/ DefectsCall \/ Return

SpecDefects == InitDefects /\ [][NextDefects]_vars

(***************************************************************************)
(* apps/api: the HTTP service.  A JavaScript value is a JSON value or      *)
(* undefined; a response is its status and the properties of the body it   *)
(* sends; a log line is the list of the texts it is put together from.     *)
(***************************************************************************)
Undefined == <<"undefined", 0, <<>>, <<>>>>

\* typeof v
TypeOf(v) ==
    CASE v[1] \in {"null", "arr", "obj"} -> "object"
      [] v[1] = "bool" -> "boolean"
      [] v[1] = "num" -> "number"
      [] v[1] = "str" -> "string"
      [] v[1] = "undefined" -> "undefined"

\* !v
Falsy(v) ==
    \/ v[1] \in {"null", "undefined"}
    \/ v[1] = "bool" /\ v[2] = 0
    \/ v[1] = "num" /\ v[2] = 0
    \/ v[1] = "str" /\ v[3] = <<>>

\* const { key } = v, for v other than null and undefined
Member(v, key) ==
    LET found == {k \in 1..Len(v[4]) : v[1] = "obj" /\ v[4][k][1] = key} IN
    IF found = {} THEN Undefined
    ELSE v[4][CHOOSE k \in found : \A j \in found : j <= k][2]

\* the string with the characters of text
RECURSIVE JoinText(_)
JoinText(text) ==
    IF Len(text) = 0 THEN ""
    ELSE IF Len(text) = 1 THEN text[1]
    ELSE LET half == Len(text) \div 2 IN
         JoinText(SubSeq(text, 1, half)) \o JoinText(SubSeq(text, half + 1, Len(text)))

PartyIdKey == <<"p", "a", "r", "t", "y", "I", "d">>
PayloadKey == <<"p", "a", "y", "l", "o", "a", "d">>
Party123 == <<"p", "a", "r", "t", "y", "_", "1", "2", "3">>

Body(partyId, payload) == JObj(<< <<PartyIdKey, partyId>>, <<PayloadKey, payload>> >>)

\* the bodies of POST /tx/encrypt: three with a partyId and an object, an
\* array payload, payloads null and 5, partyIds "", 7 and ["a"], a body
\* without partyId, one without payload, the body null and no body
Bodies ==
    { Body(JStr(Party123), PayloadEmpty),
      Body(JStr(<<"a", "c", "c", "t", "/", "7">>), PayloadNested),
      Body(JStr(Party123), PayloadArray),
      Body(JStr(Party123), JNull),
      Body(JStr(Party123), PayloadScalar),
      Body(JStr(<<>>), PayloadEmpty),
      Body(JNum(7), PayloadEmpty),
      Body(JArr(<<JStr(<<"a">>)>>), PayloadEmpty),
      JObj(<< <<PayloadKey, PayloadEmpty>> >>),
      JObj(<< <<PartyIdKey, JStr(Party123)>> >>),
      JNull,
      Undefined }

NoReply == NoHttp.reply

\* reply.status(400 or 404).send({ error })
ErrorReply(error) == [NoReply EXCEPT !.sent = {"error"}, !.error = error]
\* reply.status(500).send({ error, details: error.message })
FailureReply(error, details) ==
    [NoReply EXCEPT !.sent = {"error", "details"}, !.error = error, !.details = details]

LogInfo(parts) == [level |-> "info", parts |-> parts]
LogError(message) == [level |-> "error", parts |-> <<message>>]

\* !payload || typeof payload !== "object"
payloadRejected(payload) == Falsy(payload) \/ TypeOf(payload) # "object"

\* !partyId || typeof partyId !== "string"
partyIdRejected(partyId) == Falsy(partyId) \/ TypeOf(partyId) # "string"

NoSeal == [ok |-> FALSE, error |-> "", record |-> NoRecord, gcm |-> {}, draws |-> 0]

\* faulty variant, for sensitivity analysis: the log line of a stored transaction carries the payload
encryptedLogLineWithPayload(record, partyId, payload) ==
    LogInfo(<<"Encrypted transaction ", record.id, " for party ", partyId, " ",
              JoinText(JsonStringify(payload))>>)

\* fastify.log.info(`Encrypted transaction ${record.id} for party ${partyId}`)
encryptedLogLine(record, partyId, payload) ==
    LogInfo(<<"Encrypted transaction ", record.id, " for party ", partyId>>)

\* faulty variant, for sensitivity analysis: the handler answers 200 whether or not the record was sealed and stored
postEncryptSealedAlways(r, partyId, payload) ==
    [status |-> 200,
     reply |-> [NoReply EXCEPT !.sent = {"id", "message"}, !.id = r.record.id,
                  !.message = "Transaction encrypted and stored successfully"],
     log |-> <<encryptedLogLine(r.record, partyId, payload)>>,
     calls |-> <<"encryptEnvelope">>, seal |-> r]

\* the handler of POST /tx/encrypt once encryptEnvelope has returned the
\* record or thrown, r being what it did
postEncryptSealed(r, partyId, payload) ==
    IF ~r.ok
    THEN [status |-> 500, reply |-> FailureReply("Encryption failed", r.error),
          log |-> <<LogError(r.error)>>, calls |-> <<"encryptEnvelope">>, seal |-> r]
    ELSE [status |-> 200,
          reply |-> [NoReply EXCEPT !.sent = {"id", "message"}, !.id = r.record.id,
                       !.message = "Transaction encrypted and stored successfully"],
          log |-> <<encryptedLogLine(r.record, partyId, payload)>>,
          calls |-> <<"encryptEnvelope">>, seal |-> r]

\* the handler of POST /tx/encrypt: the response, the lines logged, the
\* functions of the crypto package called and the outcome of
\* encryptEnvelope
postEncrypt(body, e, g, draw, t, seedP, seedW) ==
    IF body[1] \in {"null", "undefined"}
    THEN LET message == "Cannot destructure property 'partyId' of 'request.body' as it is "
                        \o (IF body[1] = "null" THEN "null." ELSE "undefined.") IN
         [status |-> 500, reply |-> FailureReply("Encryption failed", message),
          log |-> <<LogError(message)>>, calls |-> <<>>, seal |-> NoSeal]
    ELSE LET partyId == Member(body, PartyIdKey)
             payload == Member(body, PayloadKey) IN
         IF partyIdRejected(partyId)
         THEN [status |-> 400, reply |-> ErrorReply("partyId is required and must be a string"),
               log |-> <<>>, calls |-> <<>>, seal |-> NoSeal]
         ELSE IF payloadRejected(payload)
         THEN [status |-> 400, reply |-> ErrorReply("payload is required and must be an object"),
               log |-> <<>>, calls |-> <<>>, seal |-> NoSeal]
         ELSE postEncryptSealed(encryptEnvelope(JoinText(partyId[3]), payload, e, g, draw, t,
                                                seedP, seedW),
                                 JoinText(partyId[3]), payload)

\* the row prisma.transaction.create stores for the record; the createdAt
\* column is not given by the handler: the database sets it, to its own
\* time at the insert
dbRow(record, insertedAt) ==
    [id |-> record.id, partyId |-> record.partyId,
     encryptedDek |-> record.dek_wrapped, dekWrapNonce |-> record.dek_wrap_nonce,
     dekWrapTag |-> record.dek_wrap_tag, encryptedData |-> record.payload_ct,
     iv |-> record.payload_nonce, authTag |-> record.payload_tag,
     createdAt |-> insertedAt]

dbRecordToTxSecureRecord(dbRecord) ==
    [id |-> dbRecord.id, partyId |-> dbRecord.partyId,
     payload_nonce |-> dbRecord.iv, payload_ct |-> dbRecord.encryptedData,
     payload_tag |-> dbRecord.authTag, dek_wrap_nonce |-> dbRecord.dekWrapNonce,
     dek_wrapped |-> dbRecord.encryptedDek, dek_wrap_tag |-> dbRecord.dekWrapTag,
     alg |-> "AES-256-GCM", mk_version |-> 1,
     createdAt |-> toISOString(dbRecord.createdAt)]

\* faulty variant, for sensitivity analysis: the store keeps the last record only
txStoreSetOnly(st, record) == {record}

\* txStore.set(record.id, record), on the map with the entries st
txStoreSet(st, record) == (st \ {row \in st : row.id = record.id}) \cup {record}

\* faulty variant, for sensitivity analysis: the lookup answers with a row of another id
FindAny(id) == IF store = {} THEN {} ELSE {CHOOSE row \in store : TRUE}

\* txStore.get(id), prisma.transaction.findUnique({ where: { id } }): the
\* rows found, none or one
Find(id) == {row \in store : row.id = id}

\* the record the handlers make of a row found
RecordOf(row) == IF server = "memory" THEN row ELSE dbRecordToTxSecureRecord(row)

\* the index in `sealed` of the record with this id
SealedIndex(id) == CHOOSE i \in 1..Len(sealed) : sealed[i].record.id = id

\* the ids requests ask for: those the first two seals give out and one
\* that is never given out
Ids == {randomUUID(4), randomUUID(8), "no-such-id"}

\* a POST /tx/encrypt request, while at most `limit` records are sealed;
\* the Prisma server's insert happens at the time of the seal or later
PostEncrypt(limit) ==
    /\ Quiet
    /\ \E body \in Bodies, tick \in {0, 1} :
           LET mk == getMasterKey(env) IN
           \E seedP \in GcmSeeds(gcm, newDek(draws), newPayloadNonce(draws)),
              seedW \in GcmSeeds(gcm, mk.key, newDekWrapNonce(draws)) :
               \E h \in {postEncrypt(body, env, gcm, draws, now, seedP, seedW)} :
               LET called == h.calls # <<>>
                   r == h.seal IN
               /\ h.status = 200 => Len(sealed) < limit
               /\ ~called => (seedP = CHOOSE x \in KeystreamSeeds : TRUE) /\ seedW = seedP
               /\ (server = "memory" \/ h.status # 200) => tick = 0
               /\ gcm' = IF called THEN r.gcm ELSE gcm
               /\ draws' = IF called THEN r.draws ELSE draws
               /\ now' = IF h.status = 200 THEN now + 1 + tick ELSE now
               /\ sealed' = IF h.status = 200
                            THEN Append(sealed,
                                        SealedEntry(r.record.partyId,
                                                    Member(body, PayloadKey), r))
                            ELSE sealed
               /\ store' = IF h.status # 200 THEN store
                           ELSE IF server = "memory"
                           THEN txStoreSet(store, r.record)
                           ELSE store \cup {dbRow(r.record, now + tick)}
               /\ last' = IF ~called THEN Idle
                          ELSE [op |-> "encrypt", env |-> env,
                                base |-> IF r.ok THEN Len(sealed) + 1 ELSE 0,
                                input |-> NoRecord, after |-> NoRecord,
                                out |-> [ok |-> r.ok, error |-> r.error, value |-> JNull,
                                         steps |-> <<>>]]
               /\ http' = [route |-> "encrypt", id |-> "", body |-> body, status |-> h.status,
                           reply |-> h.reply, log |-> h.log, calls |-> h.calls,
                           before |-> store]
               /\ UNCHANGED <<env, server, keyLog, requests, ui>>

\* a GET /tx/:id request
GetTx ==
    \E id \in Ids :
        /\ Quiet
        /\ http' = IF Find(id) = {}
                   THEN [route |-> "fetch", id |-> id, body |-> Undefined, status |-> 404,
                         reply |-> ErrorReply("Transaction not found"),
                         log |-> <<>>, calls |-> <<>>, before |-> store]
                   ELSE LET record == RecordOf(CHOOSE row \in Find(id) : TRUE) IN
                        [route |-> "fetch", id |-> id, body |-> Undefined, status |-> 200,
                         reply |-> [NoReply EXCEPT
                                      !.sent = {"id", "partyId", "createdAt", "alg",
                                                "mk_version"} \cup HexFields,
                                      !.record = record],
                         log |-> <<LogInfo(<<"Retrieved encrypted transaction ", id>>)>>,
                         calls |-> <<>>, before |-> store]
        /\ UNCHANGED <<env, gcm, draws, now, sealed, last, server, store, keyLog, requests, ui>>

\* a POST /tx/:id/decrypt request; the memory server hands the stored
\* object itself to decryptEnvelope
PostDecrypt ==
    \E id \in Ids :
        /\ Quiet
        /\ IF Find(id) = {}
           THEN /\ http' = [route |-> "decrypt", id |-> id, body |-> Undefined,
                            status |-> 404, reply |-> ErrorReply("Transaction not found"),
                            log |-> <<>>, calls |-> <<>>, before |-> store]
                /\ UNCHANGED <<last, store>>
           ELSE \E row \in Find(id) :
                \E call \in {DecryptOutcome(SealedIndex(row.id), RecordOf(row))} :
                /\ last' = call
                /\ store' = IF server = "memory" THEN (store \ {row}) \cup {call.after}
                            ELSE store
                /\ http' = IF call.out.ok
                           THEN [route |-> "decrypt", id |-> id, body |-> Undefined,
                                 status |-> 200,
                                 reply |-> [NoReply EXCEPT
                                              !.sent = {"id", "partyId", "createdAt",
                                                        "payload"},
                                              !.id = call.after.id,
                                              !.partyId = call.after.partyId,
                                              !.createdAt = call.after.createdAt,
                                              !.payload = call.out.value],
                                 log |-> <<LogInfo(<<"Decrypted transaction ", id>>)>>,
                                 calls |-> <<"decryptEnvelope">>, before |-> store]
                           ELSE [route |-> "decrypt", id |-> id, body |-> Undefined,
                                 status |-> 500,
                                 reply |-> FailureReply("Decryption failed", call.out.error),
                                 log |-> <<LogError(call.out.error)>>,
                                 calls |-> <<"decryptEnvelope">>, before |-> store]
        /\ UNCHANGED <<env, gcm, draws, now, sealed, server, keyLog, requests, ui>>

\* the values MASTER_KEY_HEX takes while the service runs
ServiceEnvs == ValidEnvs \cup {EnvUnset}

InitService ==
    /\ env \in ServiceEnvs
    /\ gcm = {}
    /\ draws = 0
    /\ now = 0
    /\ sealed = <<>>
    /\ last = Idle
    /\ server \in {"memory", "prisma"}
    /\ store = {}
    /\ http = NoHttp
    /\ keyLog = <<>>
    /\ requests = {}
    /\ ui = UiStart("component")

NextService ==
    SetEnv(ServiceEnvs) \/ PostEncrypt(MaxStored) \/ GetTx \/ PostDecrypt \/ Return

SpecService == InitService /\ [][NextService]_vars

\* the column of the transaction table that holds a hex field
ColumnOf(f) ==
    CASE f = "payload_nonce" -> "iv" [] f = "payload_ct" -> "encryptedData"
      [] f = "payload_tag" -> "authTag" [] f = "dek_wrap_nonce" -> "dekWrapNonce"
      [] f = "dek_wrapped" -> "encryptedDek" [] f = "dek_wrap_tag" -> "dekWrapTag"

\* the ways a column is altered in the database
RowMutations == {"flipLast", "drop2", "nonhexFirst"}

\* a row of the transaction table, as inserted, is altered in the database,
\* outside the service
AlterRow ==
    \E row \in store, f \in HexFields, m \in RowMutations :
        /\ Quiet
        /\ server = "prisma"
        /\ row = dbRow(sealed[SealedIndex(row.id)].record, row.createdAt)
        /\ store' = (store \ {row})
                    \cup {[row EXCEPT ![ColumnOf(f)] = Mutate(@, m, <<>>)]}
        /\ UNCHANGED <<env, gcm, draws, now, sealed, last, server, http, keyLog, requests, ui>>

\* the values of MASTER_KEY_HEX in SpecStorage
StorageEnvs == {EnvText(KeyAHex), EnvUnset}

\* the servers over their stores; the rows of the database can be altered
InitStorage ==
    /\ env = EnvText(KeyAHex)
    /\ gcm = {}
    /\ draws = 0
    /\ now = 0
    /\ sealed = <<>>
    /\ last = Idle
    /\ server \in {"memory", "prisma"}
    /\ store = {}
    /\ http = NoHttp
    /\ keyLog = <<>>
    /\ requests = {}
    /\ ui = UiStart("component")

NextStorage ==
    SetEnv(StorageEnvs) \/ PostEncrypt(MaxSeals) \/ AlterRow \/ GetTx \/ PostDecrypt \/ Return

SpecStorage == InitStorage /\ [][NextStorage]_vars

(***************************************************************************)
(* The service under concurrent requests.  A handler runs from one await   *)
(* to the next without interruption; the memory server's handlers have no  *)
(* await, the Prisma server's handlers await the database once.            *)
(***************************************************************************)
\* a request as it is received
NewRequest(route, id, body) ==
    [n |-> Cardinality(requests) + 1, route |-> route, id |-> id, body |-> body,
     stage |-> "db", env |-> EnvUnset,
     known |-> {q.reply.id : q \in {x \in requests : /\ x.route = "encrypt"
                                                      /\ x.stage = "done"
                                                      /\ x.status = 200}},
     seal |-> NoSeal, found |-> {}, dbOk |-> FALSE,
     status |-> 0, reply |-> NoReply, log |-> <<>>, calls |-> <<>>]

\* the request with the response its handler sends
Answered(q, h) ==
    [q EXCEPT !.stage = "done", !.status = h.status, !.reply = h.reply, !.log = h.log,
              !.calls = h.calls]

\* the message of the error prisma.transaction.create throws
MsgCreateFailed == "Invalid prisma.transaction.create() invocation"

\* the handlers of GET /tx/:id and POST /tx/:id/decrypt once the lookup
\* has given `found`, with MASTER_KEY_HEX = e and the cipher in state g
lookupOutcome(route, id, found, e, g) ==
    IF found = {}
    THEN [status |-> 404, reply |-> ErrorReply("Transaction not found"),
          log |-> <<>>, calls |-> <<>>]
    ELSE LET record == RecordOf(CHOOSE row \in found : TRUE) IN
         IF route = "fetch"
         THEN [status |-> 200,
               reply |-> [NoReply EXCEPT
                            !.sent = {"id", "partyId", "createdAt", "alg", "mk_version"}
                                     \cup HexFields,
                            !.record = record],
               log |-> <<LogInfo(<<"Retrieved encrypted transaction ", id>>)>>,
               calls |-> <<>>]
         ELSE LET out == decryptEnvelope(record, e, g) IN
              IF out.ok
              THEN [status |-> 200,
                    reply |-> [NoReply EXCEPT
                                 !.sent = {"id", "partyId", "createdAt", "payload"},
                                 !.id = record.id, !.partyId = record.partyId,
                                 !.createdAt = record.createdAt, !.payload = out.value],
                    log |-> <<LogInfo(<<"Decrypted transaction ", id>>)>>,
                    calls |-> <<"decryptEnvelope">>]
              ELSE [status |-> 500, reply |-> FailureReply("Decryption failed", out.error),
                    log |-> <<LogError(out.error)>>, calls |-> <<"decryptEnvelope">>]

\* POST /tx/encrypt is received and its handler runs: to its end on the
\* memory server and when the request is rejected or encryptEnvelope
\* throws, to the await of prisma.transaction.create otherwise; the cipher
\* has the keystreams of `seeds`
ReceiveEncrypt(bodies, seeds, limit) ==
    /\ Cardinality(requests) < limit
    /\ \E body \in bodies :
           LET mk == getMasterKey(env) IN
           \E seedP \in GcmSeeds(gcm, newDek(draws), newPayloadNonce(draws)) \cap seeds,
              seedW \in GcmSeeds(gcm, mk.key, newDekWrapNonce(draws)) \cap seeds :
               \E h \in {postEncrypt(body, env, gcm, draws, now, seedP, seedW)} :
               \E q \in {[NewRequest("encrypt", "", body) EXCEPT !.env = env,
                                                                 !.seal = h.seal]} :
               /\ h.calls = <<>> => (seedP = CHOOSE x \in seeds : TRUE) /\ seedW = seedP
               /\ gcm' = IF h.calls # <<>> THEN h.seal.gcm ELSE gcm
               /\ draws' = IF h.calls # <<>> THEN h.seal.draws ELSE draws
               /\ now' = IF h.seal.ok THEN now + 1 ELSE now
               /\ sealed' = IF h.seal.ok
                            THEN Append(sealed,
                                        SealedEntry(h.seal.record.partyId,
                                                    Member(body, PayloadKey), h.seal))
                            ELSE sealed
               /\ store' = IF h.seal.ok /\ server = "memory"
                           THEN txStoreSet(store, h.seal.record)
                           ELSE store
               /\ requests' = requests \cup
                                 {IF h.seal.ok /\ server = "prisma" THEN q ELSE Answered(q, h)}
               /\ UNCHANGED <<env, last, server, http, keyLog, ui>>

\* the database performs the insert of prisma.transaction.create, or the
\* call fails; the id column is the key of the table
DatabaseCreate(outcomes) ==
    \E q \in requests, ok \in outcomes :
        /\ q.route = "encrypt" /\ q.stage = "db"
        /\ LET inserted == ok /\ Find(q.seal.record.id) = {} IN
           /\ store' = IF inserted THEN store \cup {dbRow(q.seal.record, now)} ELSE store
           /\ requests' = (requests \ {q})
                            \cup {[q EXCEPT !.stage = "resume", !.dbOk = inserted]}
        /\ UNCHANGED <<env, gcm, draws, now, sealed, last, server, http, keyLog, ui>>

\* the handler of POST /tx/encrypt goes on after the await: it logs and
\* answers, or its catch block answers
ResumeEncrypt ==
    \E q \in requests :
        /\ q.route = "encrypt" /\ q.stage = "resume"
        /\ requests' = (requests \ {q}) \cup
              {Answered(q, postEncryptSealed(
                              IF q.dbOk THEN q.seal
                              ELSE [q.seal EXCEPT !.ok = FALSE, !.error = MsgCreateFailed],
                              q.seal.record.partyId, Member(q.body, PayloadKey)))}
        /\ UNCHANGED <<env, gcm, draws, now, sealed, last, server, store, http, keyLog, ui>>

\* GET /tx/:id or POST /tx/:id/decrypt is received and its handler runs:
\* to its end on the memory server, to the await of findUnique otherwise
ReceiveLookup(ids, limit) ==
    /\ Cardinality(requests) < limit
    /\ \E route \in {"fetch", "decrypt"}, id \in ids :
           \E q \in {[NewRequest(route, id, Undefined) EXCEPT !.env = env]} :
           /\ requests' = requests \cup
                 {IF server = "prisma" THEN q
                  ELSE Answered([q EXCEPT !.found = Find(id)],
                                lookupOutcome(route, id, Find(id), env, gcm))}
           /\ UNCHANGED <<env, gcm, draws, now, sealed, last, server, store, http, keyLog, ui>>

\* the database answers prisma.transaction.findUnique
DatabaseFind ==
    \E q \in requests :
        /\ q.route \in {"fetch", "decrypt"} /\ q.stage = "db"
        /\ requests' = (requests \ {q})
                         \cup {[q EXCEPT !.stage = "resume", !.found = Find(q.id)]}
        /\ UNCHANGED <<env, gcm, draws, now, sealed, last, server, store, http, keyLog, ui>>

\* the handler of a lookup goes on after the await, and reads
\* MASTER_KEY_HEX when it calls decryptEnvelope
ResumeLookup ==
    \E q \in requests :
        /\ q.route \in {"fetch", "decrypt"} /\ q.stage = "resume"
        /\ requests' = (requests \ {q}) \cup
              {Answered([q EXCEPT !.env = env],
                        lookupOutcome(q.route, q.id, q.found, env, gcm))}
        /\ UNCHANGED <<env, gcm, draws, now, sealed, last, server, store, http, keyLog, ui>>

\* the bodies of the concurrent requests, and the ids they ask for: those
\* the first two seals give out
ConcurrentBodies ==
    { Body(JStr(Party123), PayloadEmpty),
      Body(JStr(<<"a", "c", "c", "t", "/", "7">>), PayloadNested) }
ConcurrentIds == {randomUUID(4), randomUUID(8)}
\* the keystream the cipher has for the pairs of the concurrent requests
ConcurrentSeeds == {53}

InitConcurrent ==
    /\ env = EnvText(KeyAHex)
    /\ gcm = {}
    /\ draws = 0
    /\ now = 0
    /\ sealed = <<>>
    /\ last = Idle
    /\ server \in {"memory", "prisma"}
    /\ store = {}
    /\ http = NoHttp
    /\ keyLog = <<>>
    /\ requests = {}
    /\ ui = UiStart("component")

NextConcurrent ==
    \/ SetEnv(ValidEnvs)
    \/ ReceiveEncrypt(ConcurrentBodies, ConcurrentSeeds, MaxRequests)
    \/ DatabaseCreate({TRUE})
    \/ ResumeEncrypt
    \/ ReceiveLookup(ConcurrentIds, MaxRequests)
    \/ DatabaseFind
    \/ ResumeLookup

SpecConcurrent == InitConcurrent /\ [][NextConcurrent]_vars

\* POST /tx/encrypt requests of every kind, under a valid key and without
\* one, over a database whose insert can fail
InitWrites ==
    /\ env \in StorageEnvs
    /\ gcm = {}
    /\ draws = 0
    /\ now = 0
    /\ sealed = <<>>
    /\ last = Idle
    /\ server \in {"memory", "prisma"}
    /\ store = {}
    /\ http = NoHttp
    /\ keyLog = <<>>
    /\ requests = {}
    /\ ui = UiStart("component")

NextWrites ==
    ReceiveEncrypt(Bodies, KeystreamSeeds, MaxWrites) \/ DatabaseCreate(BOOLEAN) \/ ResumeEncrypt

SpecWrites == InitWrites /\ [][NextWrites]_vars

\* seals, and calls on sealed and on altered records, between more seals
InitRetry ==
    /\ env = EnvText(KeyAHex)
    /\ gcm = {}
    /\ draws = 0
    /\ now = 0
    /\ sealed = <<>>
    /\ last = Idle
    /\ server = "memory"
    /\ store = {}
    /\ http = NoHttp
    /\ keyLog = <<>>
    /\ requests = {}
    /\ ui = UiStart("component")

NextRetry == EncryptCall(MaxPairSeals) \/ OpenCall \/ TamperedCall \/ Return

SpecRetry == InitRetry /\ [][NextRetry]_vars

\* the environment changes MASTER_KEY_HEX, and the change is logged
RotateKey(values) ==
    \E v \in values :
        /\ Quiet
        /\ v # env
        /\ Len(keyLog) < MaxRotations
        /\ env' = v
        /\ keyLog' = Append(keyLog, [value |-> v, seals |-> Len(sealed)])
        /\ UNCHANGED <<gcm, draws, now, sealed, last, server, store, http, requests, ui>>

\* one seal, and opens of the record between changes of the key
NextRotation == RotateKey(EnvValues) \/ EncryptCall(MaxSeals) \/ OpenCall \/ Return

SpecRotation == InitPair /\ [][NextRotation]_vars

\* texts that are no JSON text: nothing, an open brace, single quotes, a
\* bare word, text after the value, a trailing comma, a leading zero, a raw
\* line feed in a string
NotJsonTexts ==
    { <<>>,
      <<"{">>,
      <<"{", "'", "a", "'", ":", "1", "}">>,
      <<"u", "n", "d", "e", "f", "i", "n", "e", "d">>,
      <<"{", "}", " ", "x">>,
      <<"{", "\"", "a", "\"", ":", "1", ",", "}">>,
      <<"0", "1">>,
      <<"\"", "a", "\n", "b", "\"">> }

\* JSON texts that JSON.stringify does not write for an object: white space
\* around the value, a number, null, a string
OtherJsonTexts ==
    { <<" ", "{", "}", "\n">>,
      <<"5">>,
      <<"n", "u", "l", "l">>,
      <<"\"", "x", "\"">>,
      <<"[", "1", ",", " ", "2", "]">> }

\* the bytes a holder of the master key seals: those of the texts, and bytes
\* that are no UTF-8
ForgedBuffers ==
    {Utf8Encode(text) : text \in NotJsonTexts \cup OtherJsonTexts} \cup {<<255>>, <<123, 195, 125>>}

\* a holder of the master key builds a record around bytes of its choice
ForgeSeal(limit) ==
    \E payloadBuffer \in ForgedBuffers :
        LET mk == getMasterKey(env) IN
        \E seedP \in GcmSeeds(gcm, newDek(draws), newPayloadNonce(draws)),
           seedW \in GcmSeeds(gcm, mk.key, newDekWrapNonce(draws)) :
            LET r == sealBytes("party_123", payloadBuffer, env, gcm, draws, now, seedP, seedW) IN
            /\ Quiet
            /\ r.ok /\ Len(sealed) < limit
            /\ gcm' = r.gcm
            /\ draws' = r.draws
            /\ now' = now + 1
            /\ sealed' = Append(sealed, SealedEntry("party_123", Undefined, r))
            /\ UNCHANGED <<env, last, server, store, http, keyLog, requests, ui>>

\* records built around bytes that encryptEnvelope does not seal, opened as
\* built, under two keys
NextForged == SetEnv(ValidEnvs) \/ ForgeSeal(MaxSeals) \/ OpenCall \/ Return

SpecForged == InitDefects /\ [][NextForged]_vars

(***************************************************************************)
(* apps/web: the TransactionUI component.  A click runs the handler up to  *)
(* its first await; the promise of fetch and the promise of                *)
(* response.json() settle later, and the handler goes on from each.  The   *)
(* state updates of one run are rendered together, and a click reaches a   *)
(* button as it is rendered.                                               *)
(***************************************************************************)
\* the most handlers that are let in flight
MaxHandlers == 2

IdKey == <<"i", "d">>
ErrorKey == <<"e", "r", "r", "o", "r">>
MessageKey == <<"m", "e", "s", "s", "a", "g", "e">>

\* the messages of the errors the runtime throws: JSON.parse and
\* response.json() on a text that is not JSON, fetch without a response,
\* and the read of a property of null
MsgSyntaxError == "Unexpected token in JSON"
MsgFailedToFetch == "Failed to fetch"
MsgNullProperty(name) == "Cannot read properties of null (reading '" \o name \o "')"

\* String(v), the message new Error(v) gets
RECURSIVE ToText(_), JoinElements(_, _)
ToText(v) ==
    CASE v[1] = "str" -> JoinText(v[3])
      [] v[1] \in {"null", "bool", "num"} -> JoinText(JsonStringify(v))
      [] v[1] = "undefined" -> "undefined"
      [] v[1] = "arr" -> JoinElements(v[4], 1)
      [] v[1] = "obj" -> "[object Object]"

JoinElements(members, i) ==
    IF i > Len(members) THEN ""
    ELSE (IF i > 1 THEN "," ELSE "")
         \o (IF members[i][2][1] \in {"null", "undefined"} THEN "" ELSE ToText(members[i][2]))
         \o JoinElements(members, i + 1)

\* data.error || "Encryption failed", "Fetch failed", "Decryption failed"
Fallback(kind) ==
    CASE kind = "encrypt" -> "Encryption failed"
      [] kind = "fetch" -> "Fetch failed"
      [] kind = "decrypt" -> "Decryption failed"

\* faulty variant, for sensitivity analysis: the buttons stay enabled while a request is loading
buttonDisabledNotLoading(u, kind) ==
    IF kind = "encrypt" THEN u.partyId = <<>> \/ u.payload = <<>>
    ELSE IF u.page = "component" THEN u.lookupId = <<>> ELSE Falsy(u.transactionId)

\* disabled={loading || !partyId || !payload} of the Encrypt button,
\* disabled={loading || !lookupId} of the Fetch and Decrypt buttons, where
\* the other page has transactionId
buttonDisabled(u, kind) ==
    \/ u.loading
    \/ IF kind = "encrypt" THEN u.partyId = <<>> \/ u.payload = <<>>
       ELSE IF u.page = "component" THEN u.lookupId = <<>> ELSE Falsy(u.transactionId)

\* setError(""); setResult(null); setLoading(true)
Started(u, kind) ==
    [u EXCEPT !.error = "", !.result = NoResult, !.loading = TRUE,
              !.ran = TRUE, !.clicked = [kind |-> kind, payload |-> u.payload],
              !.sent = <<>>]

\* the handler of this kind waiting for fetch
Waiting(kind) == [kind |-> kind, stage |-> "fetch", ok |-> FALSE]

\* the request of fetch(`${API_URL}/tx/${lookupId}`) and of
\* fetch(`${API_URL}/tx/${lookupId}/decrypt`, { method: "POST" })
lookupRequest(u, kind) ==
    LET id == IF u.page = "component" THEN JoinText(u.lookupId) ELSE ToText(u.transactionId) IN
    IF kind = "fetch"
    THEN [method |-> "GET", path |-> <<"/tx/", id>>, body |-> <<>>]
    ELSE [method |-> "POST", path |-> <<"/tx/", id, "/decrypt">>, body |-> <<>>]

\* what the handler does once response.json() has given data: the throw
\* of the try block, or the result it sets and the id it keeps
handlerRest(kind, ok, data) ==
    IF ~ok
    THEN IF data[1] = "null"
         THEN [ok |-> FALSE, error |-> MsgNullProperty("error"), result |-> NoResult,
               id |-> Undefined]
         ELSE LET e == Member(data, ErrorKey) IN
              [ok |-> FALSE, error |-> IF Falsy(e) THEN Fallback(kind) ELSE ToText(e),
               result |-> NoResult, id |-> Undefined]
    ELSE IF kind = "encrypt" /\ data[1] = "null"
    THEN [ok |-> FALSE, error |-> MsgNullProperty("id"), result |-> NoResult,
          id |-> Undefined]
    ELSE [ok |-> TRUE, error |-> "", result |-> [type |-> kind, data |-> data],
          id |-> Member(data, IdKey)]

\* an error thrown in the try block
Threw(message) == [ok |-> FALSE, error |-> message, result |-> NoResult, id |-> Undefined]

\* the end of handler i: setTransactionId and setResult, or the catch
\* block's setError, and the finally block's setLoading(false)
Finished(u, i, out) ==
    [u EXCEPT !.handlers = SubSeq(@, 1, i - 1) \o SubSeq(@, i + 1, Len(@)),
              !.loading = FALSE,
              !.error = IF out.ok THEN @ ELSE out.error,
              !.result = IF out.ok THEN out.result ELSE @,
              !.transactionId = IF out.ok /\ u.handlers[i].kind = "encrypt"
                                THEN out.id ELSE @]

\* the onChange handlers of the three inputs
TypePartyId(texts) ==
    /\ \E t \in texts : t # ui.partyId /\ ui' = [ui EXCEPT !.partyId = t]
    /\ UNCHANGED <<env, gcm, draws, now, sealed, last, server, store, http, keyLog, requests>>

TypePayload(texts) ==
    /\ \E t \in texts : t # ui.payload /\ ui' = [ui EXCEPT !.payload = t]
    /\ UNCHANGED <<env, gcm, draws, now, sealed, last, server, store, http, keyLog, requests>>

TypeLookupId(texts) ==
    /\ \E t \in texts :
          IF ui.page = "component"
          THEN t # ui.lookupId /\ ui' = [ui EXCEPT !.lookupId = t]
          ELSE JStr(t) # ui.transactionId /\ ui' = [ui EXCEPT !.transactionId = JStr(t)]
    /\ UNCHANGED <<env, gcm, draws, now, sealed, last, server, store, http, keyLog, requests>>

\* a click on the Encrypt button: handleEncrypt up to the await of fetch,
\* or to its end when JSON.parse throws
ClickEncrypt ==
    /\ ~buttonDisabled(ui, "encrypt")
    /\ Len(ui.handlers) < MaxHandlers
    /\ \E parsedPayload \in {JsonParse(ui.payload)} :
          ui' = IF ~parsedPayload.ok
                THEN [Started(ui, "encrypt") EXCEPT
                        !.error = MsgSyntaxError,
                        !.loading = FALSE]
                ELSE [Started(ui, "encrypt") EXCEPT
                        !.handlers = Append(@, Waiting("encrypt")),
                        !.sent = <<[method |-> "POST", path |-> <<"/tx/encrypt">>,
                                    body |-> JsonStringify(Body(JStr(ui.partyId),
                                                                parsedPayload.val))]>>]
    /\ UNCHANGED <<env, gcm, draws, now, sealed, last, server, store, http, keyLog, requests>>

\* a click on the Fetch or on the Decrypt button: the handler up to the
\* await of fetch
ClickLookup ==
    /\ \E kind \in {"fetch", "decrypt"} :
          /\ ~buttonDisabled(ui, kind)
          /\ Len(ui.handlers) < MaxHandlers
          /\ ui' = [Started(ui, kind) EXCEPT
                      !.handlers = Append(@, Waiting(kind)),
                      !.sent = <<lookupRequest(ui, kind)>>]
    /\ UNCHANGED <<env, gcm, draws, now, sealed, last, server, store, http, keyLog, requests>>

\* the promise of fetch settles: it rejects when there is no response,
\* it gives the response otherwise, with a status that is ok or is not
FetchSettles ==
    /\ \E i \in 1..Len(ui.handlers), outcome \in {"rejected", "ok", "not ok"} :
          /\ ui.handlers[i].stage = "fetch"
          /\ ui' = IF outcome = "rejected"
                   THEN Finished(ui, i, Threw(MsgFailedToFetch))
                   ELSE [ui EXCEPT !.handlers[i].stage = "json",
                                   !.handlers[i].ok = (outcome = "ok")]
    /\ UNCHANGED <<env, gcm, draws, now, sealed, last, server, store, http, keyLog, requests>>

\* the promise of response.json() settles, the body of the response being
\* one of `texts`, and the handler runs to its end
JsonSettles(texts) ==
    /\ \E i \in 1..Len(ui.handlers), text \in texts :
          /\ ui.handlers[i].stage = "json"
          /\ \E data \in {JsonParse(text)} :
                ui' = Finished(ui, i,
                               IF ~data.ok THEN Threw(MsgSyntaxError)
                               ELSE handlerRest(ui.handlers[i].kind, ui.handlers[i].ok,
                                                data.val))
    /\ UNCHANGED <<env, gcm, draws, now, sealed, last, server, store, http, keyLog, requests>>

\* the texts typed into the inputs
PartyIdTexts == {<<>>, Party123}
PayloadTexts == {<<>>, <<"{">>, <<"5">>, DefaultPayloadText}
LookupIdTexts == {<<>>, <<"t", "x", "1">>}

\* the bodies of the responses: the answer of an encrypt, an error, an
\* object without either property, null, and a text that is not JSON
ResponseTexts ==
    { JsonStringify(JObj(<< <<IdKey, JStr(<<"t", "x", "1">>)>>,
                            <<MessageKey, JStr(<<"o", "k">>)>> >>)),
      JsonStringify(JObj(<< <<ErrorKey, JStr(<<"n", "o", "t", " ", "f", "o", "u", "n", "d">>)>> >>)),
      JsonStringify(JObj(<<>>)),
      JsonStringify(JNull),
      <<"<", "h", "t", "m", "l", ">">> }

InitUI ==
    /\ env = EnvUnset
    /\ gcm = {}
    /\ draws = 0
    /\ now = 0
    /\ sealed = <<>>
    /\ last = Idle
    /\ server = "memory"
    /\ store = {}
    /\ http = NoHttp
    /\ keyLog = <<>>
    /\ requests = {}
    /\ ui \in {UiStart("component"), UiStart("my-app")}

NextUI ==
    \/ TypePartyId(PartyIdTexts)
    \/ TypePayload(PayloadTexts)
    \/ TypeLookupId(LookupIdTexts)
    \/ ClickEncrypt
    \/ ClickLookup
    \/ FetchSettles
    \/ JsonSettles(ResponseTexts)

\* every request has an outcome, and the continuation of a settled promise
\* is run
SpecUI ==
    InitUI /\ [][NextUI]_vars /\ WF_vars(FetchSettles) /\ WF_vars(JsonSettles(ResponseTexts))

(***************************************************************************)
(* Vocabulary of the properties.                                           *)
(***************************************************************************)
MsgUnwrap == "DEK unwrapping failed: invalid auth tag or tampered data"
MsgDecrypt == "Payload decryption failed: invalid auth tag or tampered ciphertext"
MsgKeyMissing == "MASTER_KEY_HEX environment variable is missing"
MsgKeyNotHex == "MASTER_KEY_HEX must be a valid hex string"
MsgKeyLength(n) ==
    "MASTER_KEY_HEX must decode to exactly 32 bytes, got " \o ToString(n) \o " bytes"
MsgNotHex(f) == "Validation failed: " \o f \o " must be a valid hex string"
MsgLength(f, expected, actual) ==
    "Validation failed: " \o f \o " must be " \o ToString(expected) \o " bytes, got "
    \o ToString(actual) \o " bytes"

\* the byte count each fixed-length field must decode to
ExpectedBytes ==
    [f \in HexFields \ {"payload_ct"} |->
        CASE f = "payload_nonce" -> 12 [] f = "payload_tag" -> 16
          [] f = "dek_wrap_nonce" -> 12 [] f = "dek_wrapped" -> 32
          [] f = "dek_wrap_tag" -> 16]

HasNonHex(text) == \E i \in 1..Len(text) : HexVal(text[i]) < 0
AllHex(text) == Len(text) >= 1 /\ ~HasNonHex(text)

\* the last call was decryptEnvelope, on a record made from sealed record
\* last.base
Opened == last.op = "decrypt"
Base == sealed[last.base]
\* the hex fields in which the opened record differs from the sealed one
Changed == {f \in HexFields : last.input[f] # Base.record[f]}
\* the master key is a valid key and the one the record was sealed under
SameKey == last.env \in ValidEnvs /\ last.env = Base.env

\* field f of the opened record is well-formed hex of the valid length and
\* decodes to bytes other than those of the sealed record
OtherBytes(f) ==
    /\ AllHex(last.input[f])
    /\ f # "payload_ct" => Len(BufferFromHex(last.input[f])) = ExpectedBytes[f]
    /\ BufferFromHex(last.input[f]) # BufferFromHex(Base.record[f])

(***************************************************************************)
(* C1.  Round trip: with a valid MASTER_KEY_HEX that is the same for both  *)
(* calls, decryptEnvelope(encryptEnvelope(t, p)) succeeds and returns a    *)
(* value deep-equal to p, for every request, the empty object and nested   *)
(* objects and arrays included.                                            *)
(***************************************************************************)
C1_RoundTrip ==
    (Opened /\ last.input = Base.record /\ SameKey)
        => (last.out.ok /\ last.out.value = Base.payload)

C1_Witness ==
    /\ Opened /\ last.input = Base.record /\ SameKey
    /\ Base.payload = PayloadNested
    /\ last.out.ok

(***************************************************************************)
(* C2.  Payload tamper detection: a sealed record in which payload_ct,     *)
(* payload_tag or payload_nonce is replaced by other bytes, in well-formed *)
(* hex of the valid length, fails with the payload decryption error and    *)
(* returns no payload.                                                     *)
(***************************************************************************)
C2_PayloadTamper ==
    (/\ Opened /\ SameKey
     /\ Changed # {}
     /\ Changed \subseteq {"payload_ct", "payload_tag", "payload_nonce"}
     /\ \A f \in Changed : OtherBytes(f))
        => (~last.out.ok /\ last.out.error = MsgDecrypt /\ last.out.value = JNull)

C2_Witness ==
    /\ Opened /\ SameKey
    /\ Changed = {"payload_ct"} /\ OtherBytes("payload_ct")
    /\ Len(last.input.payload_ct) = Len(Base.record.payload_ct)
    /\ last.out.error = MsgDecrypt

(***************************************************************************)
(* C3.  Key envelope tamper detection: a sealed record in which            *)
(* dek_wrapped, dek_wrap_tag or dek_wrap_nonce is replaced by other bytes, *)
(* in well-formed hex of the valid length, fails with the key unwrap       *)
(* error, never with the payload decryption error or a payload.            *)
(***************************************************************************)
C3_EnvelopeTamper ==
    (/\ Opened /\ SameKey
     /\ Changed # {}
     /\ Changed \subseteq {"dek_wrapped", "dek_wrap_tag", "dek_wrap_nonce"}
     /\ \A f \in Changed : OtherBytes(f))
        => (/\ ~last.out.ok /\ last.out.error = MsgUnwrap
            /\ "decrypt" \notin {last.out.steps[k] : k \in 1..Len(last.out.steps)})

C3_Witness ==
    /\ Opened /\ SameKey
    /\ Changed = {"dek_wrap_nonce"} /\ OtherBytes("dek_wrap_nonce")
    /\ last.out.error = MsgUnwrap

(***************************************************************************)
(* C4.  Wrong master key: a record sealed under valid key A and opened     *)
(* while MASTER_KEY_HEX is another valid key B fails with the key unwrap   *)
(* error and returns no payload, for every payload.                        *)
(***************************************************************************)
C4_WrongKey ==
    (/\ Opened /\ last.input = Base.record
     /\ Base.env \in ValidEnvs /\ last.env \in ValidEnvs
     /\ BufferFromHex(last.env.value) # BufferFromHex(Base.env.value))
        => (~last.out.ok /\ last.out.error = MsgUnwrap /\ last.out.value = JNull)

C4_Witness ==
    /\ Opened /\ last.input = Base.record
    /\ Base.env = EnvText(KeyAHex) /\ last.env = EnvText(KeyBHex)
    /\ Base.payload = PayloadNested
    /\ last.out.error = MsgUnwrap

(***************************************************************************)
(* C5.  Length validation: with the master key loaded, a record in which   *)
(* payload_nonce, payload_tag, dek_wrap_nonce, dek_wrapped or dek_wrap_tag *)
(* is well-formed hex that decodes to another byte count than 12, 16, 12,  *)
(* 32, 16 is rejected with 'Validation failed: <field> must be <expected>  *)
(* bytes, got <actual> bytes', naming that field and both lengths, and     *)
(* neither the unwrap step nor the decrypt step is entered.                *)
(***************************************************************************)
WrongLength(f) ==
    /\ f # "payload_ct"
    /\ AllHex(last.input[f])
    /\ Len(BufferFromHex(last.input[f])) # ExpectedBytes[f]

C5_LengthValidation ==
    (/\ Opened /\ last.env \in ValidEnvs
     /\ Changed # {}
     /\ \A f \in Changed : WrongLength(f))
        => (/\ ~last.out.ok
            /\ \E f \in Changed :
                 last.out.error =
                   MsgLength(f, ExpectedBytes[f], Len(BufferFromHex(last.input[f])))
            /\ last.out.steps = <<"getMasterKey", "validate">>)

C5_Witness ==
    /\ Opened /\ last.env \in ValidEnvs
    /\ Changed = {"payload_tag"}
    /\ Len(BufferFromHex(last.input.payload_tag)) = 15
    /\ last.out.error = MsgLength("payload_tag", 16, 15)

(***************************************************************************)
(* C6.  No silent coercion of field text: decryptEnvelope enters the       *)
(* unwrap step only for records whose fixed-length fields have exactly 24, *)
(* 32, 24, 64 and 32 hex digits and whose payload_ct has an even number of *)
(* hex digits; a field with an odd number of digits is rejected.           *)
(***************************************************************************)
C6_NoCoercion ==
    (Opened /\ "unwrap" \in {last.out.steps[k] : k \in 1..Len(last.out.steps)})
        => (/\ \A f \in HexFields \ {"payload_ct"} :
                  Len(last.input[f]) = 2 * ExpectedBytes[f]
            /\ Len(last.input.payload_ct) % 2 = 0)

(***************************************************************************)
(* C7.  Hex format validation: with the master key loaded, a record in     *)
(* which one of the six hex fields has a character outside 0-9a-fA-F is    *)
(* rejected with 'Validation failed: <field> must be a valid hex string';  *)
(* no step after the validation is entered and no payload is returned.     *)
(***************************************************************************)
C7_HexValidation ==
    (/\ Opened /\ last.env \in ValidEnvs
     /\ Changed # {}
     /\ \A f \in Changed : HasNonHex(last.input[f]))
        => (/\ ~last.out.ok
            /\ \E f \in Changed : last.out.error = MsgNotHex(f)
            /\ last.out.steps = <<"getMasterKey", "validate">>
            /\ last.out.value = JNull)

C7_Witness ==
    /\ Opened /\ last.env \in ValidEnvs
    /\ Changed = {"payload_ct"}
    /\ HasNonHex(last.input.payload_ct)
    /\ last.out.error = MsgNotHex("payload_ct")

(***************************************************************************)
(* C8.  Freshness per seal.  As claimed: any two records encryptEnvelope   *)
(* returns have different payload_nonce, different dek_wrap_nonce and      *)
(* different payload_ct.                                                   *)
(***************************************************************************)
C8_AllFresh ==
    \A i, j \in 1..Len(sealed) :
        i < j => /\ sealed[i].record.payload_nonce # sealed[j].record.payload_nonce
                 /\ sealed[i].record.dek_wrap_nonce # sealed[j].record.dek_wrap_nonce
                 /\ sealed[i].record.payload_ct # sealed[j].record.payload_ct

(***************************************************************************)
(* C8, amended.  Any two records encryptEnvelope returns have different    *)
(* payload_nonce and different dek_wrap_nonce, the random generator not    *)
(* repeating an output, and each record opens to its own payload; their    *)
(* payload_ct, which is as long as the payload's JSON text, need not       *)
(* differ.                                                                 *)
(***************************************************************************)
C8_FreshNonces ==
    /\ \A i, j \in 1..Len(sealed) :
          i < j => /\ sealed[i].record.payload_nonce # sealed[j].record.payload_nonce
                   /\ sealed[i].record.dek_wrap_nonce # sealed[j].record.dek_wrap_nonce
    /\ (Opened /\ last.input = Base.record /\ SameKey)
          => (last.out.ok /\ last.out.value = Base.payload)

C8_Witness ==
    /\ Len(sealed) >= 2
    /\ sealed[1].payload = sealed[2].payload
    /\ sealed[1].record.payload_ct = sealed[2].record.payload_ct
    /\ Opened /\ last.base = 2 /\ last.out.ok

(***************************************************************************)
(* C9.  Order of the first two steps of open: the record's fields are      *)
(* validated before the master key is loaded, so a record with a malformed *)
(* or wrong-length field gets the validation error even when               *)
(* MASTER_KEY_HEX is missing or invalid.                                   *)
(***************************************************************************)
ValidationErrors ==
    {MsgNotHex(f) : f \in HexFields}
    \cup {MsgLength(f, ExpectedBytes[f], n) : f \in HexFields \ {"payload_ct"}, n \in 0..40}

Malformed(record) ==
    \/ \E f \in HexFields : ~AllHex(record[f])
    \/ \E f \in HexFields \ {"payload_ct"} :
          Len(BufferFromHex(record[f])) # ExpectedBytes[f]

C9_ValidateFirst ==
    (Opened /\ Malformed(last.input)) => last.out.error \in ValidationErrors

(***************************************************************************)
(* C10.  The master key loader checks in order: a missing value gives the  *)
(* 'missing' error; otherwise a value with a character that is no hex      *)
(* digit gives the 'must be a valid hex string' error; otherwise a value   *)
(* that decodes to another byte count than 32 gives the 'must decode to    *)
(* exactly 32 bytes' error; only otherwise a 32-byte key is returned.  The *)
(* earliest failing check decides the error.                               *)
(***************************************************************************)
Called == last.op \in {"encrypt", "decrypt"}

C10_LoaderOrder ==
    Called =>
        LET value == last.env.value IN
        IF ~last.env.defined \/ value = <<>>
        THEN ~last.out.ok /\ last.out.error = MsgKeyMissing
        ELSE IF HasNonHex(value)
        THEN ~last.out.ok /\ last.out.error = MsgKeyNotHex
        ELSE IF Len(BufferFromHex(value)) # 32
        THEN ~last.out.ok /\ last.out.error = MsgKeyLength(Len(BufferFromHex(value)))
        ELSE /\ last.out.error \notin
                   {MsgKeyMissing, MsgKeyNotHex} \cup {MsgKeyLength(n) : n \in 0..40}
             /\ last.op = "encrypt" =>
                   (/\ last.out.ok
                    /\ sealed[last.base].key = BufferFromHex(value)
                    /\ Len(sealed[last.base].key) = 32)

\* a value with two defects, a character that is no hex digit and a wrong
\* length, gets the error of the hex check
C10_Witness ==
    /\ Called
    /\ HasNonHex(last.env.value)
    /\ Len(last.env.value) = 66
    /\ Len(BufferFromHex(last.env.value)) = 31
    /\ last.out.error = MsgKeyNotHex

(***************************************************************************)
(* C11.  Master key format: a call gets past the master key loader only    *)
(* when MASTER_KEY_HEX is a text of exactly 64 hex digits; every other     *)
(* value, texts of 63 and of 65 hex digits included, ends the call with    *)
(* one of the loader's errors and no key.                                  *)
(***************************************************************************)
LoaderErrors == {MsgKeyMissing, MsgKeyNotHex} \cup {MsgKeyLength(n) : n \in 0..40}

\* the call got a key from getMasterKey
KeyLoaded == Called /\ last.out.error \notin LoaderErrors

C11_KeyFormat ==
    Called =>
        IF last.env.defined /\ AllHex(last.env.value) /\ Len(last.env.value) = 64
        THEN KeyLoaded
        ELSE ~last.out.ok /\ last.out.error \in LoaderErrors

(***************************************************************************)
(* C12.  Seal failure condition: for every partyId and payload,            *)
(* encryptEnvelope returns a record if and only if the master key loader   *)
(* returns a key for the value of MASTER_KEY_HEX; when the loader fails    *)
(* the call ends with the loader's error, returns no record, and nothing   *)
(* is encrypted under another key; when it succeeds the record is sealed   *)
(* under the loaded key.                                                   *)
(***************************************************************************)
C12_SealFailure ==
    last.op = "encrypt" =>
        LET mk == getMasterKey(last.env) IN
        /\ last.out.ok <=> mk.ok
        /\ ~mk.ok => /\ last.out.error = mk.error
                     /\ last.out.error \in LoaderErrors
                     /\ last.base = 0
                     /\ \A i \in 1..Len(sealed) : sealed[i].env # last.env
        /\ mk.ok => /\ last.base = Len(sealed)
                    /\ sealed[last.base].key = mk.key
                    /\ unwrapDek(sealed[last.base].record, mk.key, gcm).ok

\* a seal fails under a value of 63 hex digits
C12_Witness ==
    /\ last.op = "encrypt"
    /\ Len(last.env.value) = 63
    /\ ~last.out.ok
    /\ last.out.error = MsgKeyLength(31)

(***************************************************************************)
(* C13.  Well-formed seal output: every record encryptEnvelope(t, p)       *)
(* returns has partyId equal to t, alg 'AES-256-GCM', mk_version 1, and    *)
(* payload_nonce, payload_tag, dek_wrap_nonce, dek_wrapped, dek_wrap_tag   *)
(* of 24, 32, 24, 64, 32 hex digits that decode to 12, 16, 12, 32, 16      *)
(* bytes; it passes the validation step of decryptEnvelope, so opening it  *)
(* as returned never ends with a validation error.                         *)
(***************************************************************************)
C13_WellFormed ==
    /\ \A i \in 1..Len(sealed) :
          LET record == sealed[i].record IN
          /\ record.partyId = sealed[i].partyId
          /\ record.alg = "AES-256-GCM"
          /\ record.mk_version = 1
          /\ \A f \in HexFields \ {"payload_ct"} :
                /\ AllHex(record[f])
                /\ Len(record[f]) = 2 * ExpectedBytes[f]
                /\ Len(BufferFromHex(record[f])) = ExpectedBytes[f]
          /\ AllHex(record.payload_ct)
          /\ validateRecord(record) = ""
    /\ (Opened /\ last.input = Base.record) => last.out.error \notin ValidationErrors

\* a record sealed with the empty partyId is opened as returned and gets
\* past the validation step
C13_Witness ==
    /\ Opened /\ last.input = Base.record
    /\ Base.partyId = "" /\ Base.record.partyId = ""
    /\ Len(Base.record.dek_wrapped) = 64
    /\ "unwrap" \in {last.out.steps[k] : k \in 1..Len(last.out.steps)}

(***************************************************************************)
(* C14.  Key and plaintext confinement: in every state of the service, no  *)
(* stored row, no record encryptEnvelope returned, no response of POST     *)
(* /tx/encrypt or GET /tx/:id and no log line of a handler holds the DEK   *)
(* of a sealed record or the JSON text of its payload, as text, as bytes   *)
(* or in hex; the DEK is held only wrapped, in dek_wrapped, and a payload  *)
(* is sent only by a POST /tx/:id/decrypt that answers 200.                *)
(***************************************************************************)
\* secret occurs in text, both sequences
Within(secret, text) ==
    \E o \in 0..(Len(text) - Len(secret)) : SubSeq(text, o + 1, o + Len(secret)) = secret

\* the DEK and the payload text of sealed record k, in the forms a text
\* field can hold them
SecretTexts(k) ==
    LET plain == JsonStringify(sealed[k].payload) IN
    {BufferToHex(sealed[k].dek), plain, BufferToHex(Utf8Encode(plain))}
\* and in the forms a string can hold them
SecretStrings(k) == {JoinText(t) : t \in SecretTexts(k)}

\* the hex texts and the strings of a record, of a row
RecordTexts(record) == {record[f] : f \in HexFields}
RecordStrings(record) == {record.id, record.partyId, record.createdAt, record.alg}
RowTexts(row) ==
    IF server = "memory" THEN RecordTexts(row) ELSE {row[ColumnOf(f)] : f \in HexFields}
RowStrings(row) ==
    IF server = "memory" THEN RecordStrings(row) ELSE {row.id, row.partyId}

\* the texts and the strings the response in progress sends, those a log
\* line of the request holds
ReplyTexts == RecordTexts(http.reply.record)
ReplyStrings ==
    {http.reply.id, http.reply.message, http.reply.error, http.reply.details,
     http.reply.partyId, http.reply.createdAt} \cup RecordStrings(http.reply.record)
LogStrings == UNION {{line.parts[j] : j \in 1..Len(line.parts)} :
                        line \in {http.log[n] : n \in 1..Len(http.log)}}

Confined(texts, strings) ==
    \A k \in 1..Len(sealed) :
        /\ \A t \in texts : \A secret \in SecretTexts(k) : ~Within(secret, t)
        /\ \A t \in texts : /\ BufferFromHex(t) # sealed[k].dek
                            /\ BufferFromHex(t) # Utf8Encode(JsonStringify(sealed[k].payload))
        /\ strings \cap SecretStrings(k) = {}

C14_Confinement ==
    /\ \A row \in store : Confined(RowTexts(row), RowStrings(row))
    /\ \A i \in 1..Len(sealed) :
          Confined(RecordTexts(sealed[i].record), RecordStrings(sealed[i].record))
    /\ Confined({}, LogStrings)
    /\ http.route \in {"encrypt", "fetch"} =>
          /\ Confined(ReplyTexts, ReplyStrings)
          /\ "payload" \notin http.reply.sent /\ http.reply.payload = JNull
    /\ ("payload" \in http.reply.sent \/ http.reply.payload # JNull) =>
          (http.route = "decrypt" /\ http.status = 200)
    /\ \A i \in 1..Len(sealed) :
          unwrapDek(sealed[i].record, sealed[i].key, gcm).pt = sealed[i].dek

\* the nested payload is stored and the handler has logged its line
C14_Witness ==
    /\ http.route = "encrypt" /\ http.status = 200
    /\ Len(http.log) = 1
    /\ store # {}
    /\ Len(sealed) = 1 /\ sealed[1].payload = PayloadNested
    /\ Len(sealed[1].dek) = 32

(***************************************************************************)
(* C15.  Open is read-only: after decryptEnvelope(record) every field of   *)
(* the record is as it was before the call, whether the call returned a    *)
(* payload or ended with an error; a POST /tx/:id/decrypt leaves the       *)
(* record store as it was before the request, whatever it answers.         *)
(***************************************************************************)
C15_ReadOnly ==
    /\ Opened => last.after = last.input
    /\ http.route = "decrypt" => store = http.before

\* the memory server, which hands its stored object to decryptEnvelope,
\* has answered 500 to a decrypt request
C15_Witness ==
    /\ server = "memory"
    /\ http.route = "decrypt" /\ http.status = 500
    /\ Opened /\ ~last.out.ok
    /\ store # {}

MsgFormat == "Failed to parse decrypted payload as JSON"

C17_StatusMapping ==
    (http.route = "decrypt" /\ Opened /\ ~last.out.ok) =>
        /\ last.out.error \in ValidationErrors \cup {MsgFormat} =>
              (http.status >= 400 /\ http.status <= 499)
        /\ last.out.error \in {MsgUnwrap, MsgDecrypt} =>
              (http.status >= 500 /\ http.status <= 599)

(***************************************************************************)
(* C18.  Request validation before seal: POST /tx/encrypt calls            *)
(* encryptEnvelope only when the body's partyId is a non-empty string and  *)
(* its payload is a JSON object, which null, a scalar and an array are     *)
(* not; every other request is answered 400, without a call of             *)
(* encryptEnvelope and with the store as it was.                           *)
(***************************************************************************)
ValidRequest(body) ==
    /\ body[1] = "obj"
    /\ Member(body, PartyIdKey)[1] = "str" /\ Member(body, PartyIdKey)[3] # <<>>
    /\ Member(body, PayloadKey)[1] = "obj"

C18_RequestValidation ==
    http.route = "encrypt" =>
        /\ http.calls # <<>> => ValidRequest(http.body)
        /\ ~ValidRequest(http.body) =>
              (http.status = 400 /\ http.calls = <<>> /\ store = http.before)

(***************************************************************************)
(* C19.  Fetch returns the sealed record verbatim: for an id stored by a   *)
(* successful POST /tx/encrypt, GET /tx/:id answers 200 with a record      *)
(* whose id, partyId, createdAt, six hex fields, alg and mk_version equal  *)
(* those of the record encryptEnvelope returned for that request;          *)
(* createdAt is the timestamp fixed at seal time.                          *)
(***************************************************************************)
RecordFields == {"id", "partyId", "createdAt", "alg", "mk_version"} \cup HexFields

C19_FetchVerbatim ==
    \A i \in 1..Len(sealed) :
        (http.route = "fetch" /\ http.id = sealed[i].record.id) =>
            /\ http.status = 200
            /\ http.reply.sent = RecordFields
            /\ \A f \in RecordFields : http.reply.record[f] = sealed[i].record[f]

(***************************************************************************)
(* C20.  Not found: GET /tx/:id and POST /tx/:id/decrypt for an id that no *)
(* successful POST /tx/encrypt has stored answer 404 with the error        *)
(* 'Transaction not found'; decryptEnvelope is not called and the store is *)
(* as it was.                                                              *)
(***************************************************************************)
Stored(id) == \E i \in 1..Len(sealed) : sealed[i].record.id = id

C20_NotFound ==
    (http.route \in {"fetch", "decrypt"} /\ ~Stored(http.id)) =>
        /\ http.status = 404
        /\ http.reply.sent = {"error"}
        /\ http.reply.error = "Transaction not found"
        /\ http.calls = <<>> /\ last = Idle
        /\ http.log = <<>>
        /\ store = http.before

\* with a record stored, a decrypt request for another id is answered 404
C20_Witness ==
    /\ http.route = "decrypt" /\ http.id = "no-such-id"
    /\ store # {}
    /\ http.status = 404

(***************************************************************************)
(* C22.  Fail-fast precedence in open: with a valid master key loaded,     *)
(* decryptEnvelope on a record with several defects reports the first      *)
(* failing step only, in the order validation, key unwrap, payload         *)
(* decryption, JSON parsing, and enters no step after it.  A record with   *)
(* a tampered key envelope and a tampered payload gets the unwrap error,   *)
(* and the payload decryption step is not entered.                         *)
(***************************************************************************)
EnvelopeFields == {"dek_wrapped", "dek_wrap_tag", "dek_wrap_nonce"}
PayloadFields == {"payload_ct", "payload_tag", "payload_nonce"}

\* field f of the opened record fails the validation step
Invalid(f) ==
    \/ ~AllHex(last.input[f])
    \/ f # "payload_ct" /\ Len(BufferFromHex(last.input[f])) # ExpectedBytes[f]

\* the opened record has other bytes than the sealed one in a field of fs
OtherBytesIn(fs) ==
    \E f \in fs : BufferFromHex(last.input[f]) # BufferFromHex(Base.record[f])

C22_FailFast ==
    (Opened /\ last.env \in ValidEnvs) =>
        IF \E f \in HexFields : Invalid(f)
        THEN /\ ~last.out.ok /\ last.out.error \in ValidationErrors
             /\ last.out.steps = <<"getMasterKey", "validate">>
        ELSE IF last.env # Base.env \/ OtherBytesIn(EnvelopeFields)
        THEN /\ ~last.out.ok /\ last.out.error = MsgUnwrap
             /\ last.out.steps = <<"getMasterKey", "validate", "unwrap">>
        ELSE IF OtherBytesIn(PayloadFields)
        THEN /\ ~last.out.ok /\ last.out.error = MsgDecrypt
             /\ last.out.steps = <<"getMasterKey", "validate", "unwrap", "decrypt">>
        ELSE /\ last.out.ok
             /\ last.out.steps = <<"getMasterKey", "validate", "unwrap", "decrypt", "parse">>

\* the tag of the key envelope and the tag of the payload are both altered
C22_Witness ==
    /\ Opened /\ SameKey
    /\ Changed = {"dek_wrap_tag", "payload_tag"}
    /\ OtherBytes("dek_wrap_tag") /\ OtherBytes("payload_tag")
    /\ last.out.error = MsgUnwrap
    /\ last.out.steps = <<"getMasterKey", "validate", "unwrap">>

(***************************************************************************)
(* C23.  Field validation order: when several fields of a record are       *)
(* invalid, the validation error names the first invalid field in the      *)
(* order payload_nonce, payload_tag, dek_wrap_nonce, dek_wrapped,          *)
(* dek_wrap_tag, payload_ct; a field that is both non-hex and of the wrong *)
(* length gets the hex-format error, not the length error.                 *)
(***************************************************************************)
FirstInvalid ==
    ValidationOrder[CHOOSE k \in 1..6 :
                       /\ Invalid(ValidationOrder[k])
                       /\ \A j \in 1..(k - 1) : ~Invalid(ValidationOrder[j])]

C23_ValidationOrder ==
    (Opened /\ last.env \in ValidEnvs /\ \E f \in HexFields : Invalid(f)) =>
        /\ ~last.out.ok
        /\ last.out.error =
              IF ~AllHex(last.input[FirstInvalid]) THEN MsgNotHex(FirstInvalid)
              ELSE MsgLength(FirstInvalid, ExpectedBytes[FirstInvalid],
                             Len(BufferFromHex(last.input[FirstInvalid])))

\* payload_ct has a character that is no hex digit and payload_tag has one
\* too and is too short: the error is the hex-format error of payload_tag
C23_Witness ==
    /\ Opened /\ last.env \in ValidEnvs
    /\ Changed = {"payload_ct", "payload_tag"}
    /\ HasNonHex(last.input.payload_ct)
    /\ HasNonHex(last.input.payload_tag)
    /\ Len(BufferFromHex(last.input.payload_tag)) # 16
    /\ last.out.error = MsgNotHex("payload_tag")

(***************************************************************************)
(* C24.  Format error: a record that passes the validation step and both   *)
(* authentication checks, built by a holder of the master key, whose       *)
(* decrypted bytes are no JSON text makes decryptEnvelope fail with        *)
(* 'Failed to parse decrypted payload as JSON'; no value is returned, and  *)
(* the error is neither the unwrap nor the payload decryption error; the   *)
(* format error is given in no other case.                                 *)
(***************************************************************************)
\* the bytes sealed in the record the last call is about
SealedBytes == decryptPayload(Base.record, Base.dek, Base.gcm).pt

NotJsonBuffers == {Utf8Encode(text) : text \in NotJsonTexts} \cup {<<255>>, <<123, 195, 125>>}

\* the call passed the validation step and both authentication checks
Authenticated == Opened /\ "parse" \in {last.out.steps[k] : k \in 1..Len(last.out.steps)}

C24_FormatError ==
    /\ (Authenticated /\ SealedBytes \in NotJsonBuffers) =>
          (~last.out.ok /\ last.out.error = MsgFormat /\ last.out.value = JNull)
    /\ (Opened /\ last.out.error = MsgFormat) =>
          (Authenticated /\ SealedBytes \in NotJsonBuffers)
    /\ (Authenticated /\ SealedBytes \notin NotJsonBuffers) => last.out.ok

\* a record around the text {"a":1,} is opened under the key it was built
\* with
C24_Witness ==
    /\ Authenticated /\ SameKey /\ last.input = Base.record
    /\ SealedBytes = Utf8Encode(<<"{", "\"", "a", "\"", ":", "1", ",", "}">>)
    /\ last.out.error = MsgFormat

(***************************************************************************)
(* C25.  No tampering oracle: every call of decryptEnvelope that fails at  *)
(* the unwrap step ends with one and the same error, whatever made it fail *)
(* (another master key, an altered nonce, wrapped key or tag), and every   *)
(* call that fails at the payload decryption step ends with one and the    *)
(* same error; the error is fixed by the step and depends on no key, tag   *)
(* or plaintext byte.                                                      *)
(***************************************************************************)
\* the last call failed in the step named
FailedAt(step) ==
    /\ Opened /\ ~last.out.ok
    /\ Len(last.out.steps) >= 1
    /\ last.out.steps[Len(last.out.steps)] = step

C25_NoOracle ==
    /\ FailedAt("unwrap") => (last.out.error = MsgUnwrap /\ last.out.value = JNull)
    /\ FailedAt("decrypt") => (last.out.error = MsgDecrypt /\ last.out.value = JNull)

\* the unwrap fails for a wrapped key altered in its first digit, under the
\* key the record was sealed with
C25_Witness ==
    /\ FailedAt("unwrap") /\ SameKey
    /\ Changed = {"dek_wrapped"}
    /\ Len(last.input.dek_wrapped) = 64
    /\ last.input.dek_wrapped[1] # Base.record.dek_wrapped[1]
    /\ last.out.error = MsgUnwrap

(***************************************************************************)
(* C26.  Hex case: every hex field of a record encryptEnvelope returns is  *)
(* in lower case, and the outcome of decryptEnvelope, payload or error, is *)
(* the same for a record and for the record with hex letters of its fields *)
(* put in the other case.                                                  *)
(***************************************************************************)
LowerChar(c) ==
    CASE c = "A" -> "a" [] c = "B" -> "b" [] c = "C" -> "c"
      [] c = "D" -> "d" [] c = "E" -> "e" [] c = "F" -> "f" [] OTHER -> c

\* the record with the hex letters of its hex fields in lower case
Lowered(record) ==
    [f \in DOMAIN record |->
        IF f \in HexFields THEN [i \in 1..Len(record[f]) |-> LowerChar(record[f][i])]
        ELSE record[f]]

\* the places of the opened record that hold a hex letter in upper case
UpperPlaces ==
    {<<f, i>> \in HexFields \X (1..70) :
        i <= Len(last.input[f]) /\ LowerChar(last.input[f][i]) # last.input[f][i]}

C26_HexCase ==
    /\ \A i \in 1..Len(sealed) : Lowered(sealed[i].record) = sealed[i].record
    /\ Opened => last.out = decryptEnvelope(Lowered(last.input), last.env, gcm)

\* one letter of the wrapped key is in upper case and the tag of the
\* payload is altered: the call fails as it does with the letter in lower
\* case
C26_Witness ==
    /\ Opened /\ SameKey
    /\ Cardinality(UpperPlaces) = 1
    /\ \E p \in UpperPlaces : p[1] = "dek_wrapped"
    /\ Lowered(last.input).dek_wrapped = Base.record.dek_wrapped
    /\ Changed = {"dek_wrapped", "payload_tag"}
    /\ last.out.error = MsgDecrypt

(***************************************************************************)
(* C27.  The master key is decoded afresh on every call: each call reads   *)
(* MASTER_KEY_HEX as it is when the call is made.  Over every sequence of  *)
(* key changes and calls, a record sealed under key A opens exactly in the *)
(* calls made while the value is A; it fails with the unwrap error while   *)
(* the value is another valid key, with the loader's error while the value *)
(* is missing or invalid, and opens again once the value is A again.       *)
(***************************************************************************)
C27_FreshKey ==
    (Opened /\ last.input = Base.record) =>
        /\ last.env = env
        /\ IF ~getMasterKey(env).ok
           THEN ~last.out.ok /\ last.out.error \in LoaderErrors
           ELSE IF getMasterKey(env).key = Base.key
           THEN last.out.ok /\ last.out.value = Base.payload
           ELSE ~last.out.ok /\ last.out.error = MsgUnwrap

\* the record was sealed under key A, the value was then changed to key B,
\* later to no value, and then back to A, where the record opens
C27_Witness ==
    /\ Opened /\ last.input = Base.record /\ last.out.ok
    /\ Base.env = EnvText(KeyAHex)
    /\ Len(keyLog) = 3
    /\ keyLog[1] = [value |-> EnvText(KeyBHex), seals |-> 1]
    /\ keyLog[2].value = EnvUnset
    /\ keyLog[3].value = EnvText(KeyAHex)

\* the requests of a route that have been answered
DoneRequests(route) == {q \in requests : q.route = route /\ q.stage = "done"}

\* the requests whose handler waits for the database or for its turn
InFlight == {q \in requests : q.stage # "done"}

\* two records carry the same envelope under the same id
SameEnvelope(a, b) ==
    /\ a.id = b.id /\ a.partyId = b.partyId
    /\ \A f \in HexFields : a[f] = b[f]

(***************************************************************************)
(* C21.  Service round trip under interleaving: when POST /tx/encrypt with *)
(* partyId t and payload p was answered 200 with id i, every               *)
(* POST /tx/i/decrypt received later and run while MASTER_KEY_HEX has the  *)
(* value it had at the encrypt is answered 200 with a payload equal to p,  *)
(* partyId t and id i, whatever other encrypt, fetch and decrypt requests  *)
(* are handled in between or are waiting for the database; a fetch         *)
(* answered 200 carries the envelope sealed under the id it asked for, and *)
(* every stored row is the envelope sealed under its id.                   *)
(***************************************************************************)
C21_ServiceRoundTrip ==
    /\ \A e \in DoneRequests("encrypt"), q \in DoneRequests("decrypt") :
          (e.status = 200 /\ q.id = e.reply.id /\ q.id \in q.known /\ q.env = e.env) =>
              /\ q.status = 200
              /\ q.reply.sent = {"id", "partyId", "createdAt", "payload"}
              /\ q.reply.payload = Member(e.body, PayloadKey)
              /\ q.reply.partyId = JoinText(Member(e.body, PartyIdKey)[3])
              /\ q.reply.id = e.reply.id
    /\ \A q \in DoneRequests("fetch") :
          q.status = 200 =>
              /\ \E i \in 1..Len(sealed) : sealed[i].record.id = q.id
              /\ SameEnvelope(q.reply.record, sealed[SealedIndex(q.id)].record)
    /\ \A row \in store :
          /\ \E i \in 1..Len(sealed) : sealed[i].record.id = row.id
          /\ SameEnvelope(RecordOf(row), sealed[SealedIndex(row.id)].record)

\* on the Prisma server a first encrypt was answered with its id, a second
\* encrypt with another payload was received and still waits for the
\* database, and a decrypt of the first id, received after both, is
\* answered with the first payload
C21_Witness ==
    /\ server = "prisma"
    /\ \E e \in DoneRequests("encrypt"), q \in DoneRequests("decrypt"), o \in InFlight :
          /\ e.status = 200 /\ q.id = e.reply.id /\ q.id \in q.known /\ q.env = e.env
          /\ o.route = "encrypt" /\ e.n < o.n /\ o.n < q.n
          /\ Member(o.body, PayloadKey) # Member(e.body, PayloadKey)
          /\ q.status = 200 /\ q.reply.payload = Member(e.body, PayloadKey)

\* the ids of the stored records
StoredIds == {row.id : row \in store}

\* every stored record is stored unchanged after the step
StoreKept == \A row \in store : row \in store'

(***************************************************************************)
(* C28.  Stored records are write-once: any two successful encryptEnvelope *)
(* calls return different ids, the store holds one record per id, and in   *)
(* every step of the service every record that is stored stays stored as   *)
(* it is: no request, whatever its route and outcome, overwrites, modifies *)
(* or deletes a stored record.                                             *)
(***************************************************************************)
C28_WriteOnce ==
    /\ [](/\ \A i, j \in 1..Len(sealed) :
                i # j => sealed[i].record.id # sealed[j].record.id
          /\ \A a, b \in store : a.id = b.id => a = b)
    /\ [][StoreKept]_vars

\* two records are stored under two ids, and the one stored first was read
\* back by a decrypt received after the second encrypt was answered
C28_Witness ==
    /\ Len(sealed) = 2 /\ Cardinality(StoredIds) = 2
    /\ \E e \in DoneRequests("encrypt"), q \in DoneRequests("decrypt") :
          /\ e.status = 200 /\ e.reply.id = sealed[2].record.id
          /\ q.id = sealed[1].record.id /\ e.reply.id \in q.known
          /\ q.status = 200

\* the rows stored under the id of the record sealed for the request
RowsOf(q) == IF q.seal.ok THEN {row \in store : row.id = q.seal.record.id} ELSE {}

(***************************************************************************)
(* C29.  POST /tx/encrypt is all-or-nothing with respect to the store: a   *)
(* request is answered 200, 400 or 500; it is answered 200 with an id      *)
(* exactly when the record sealed for it is stored under that id; when it  *)
(* is answered 400 or 500, because the request was rejected, because       *)
(* encryptEnvelope threw or because the database write threw, the answer   *)
(* carries no id and the store holds nothing of the request; and the store *)
(* holds no row but those of requests whose write succeeded.               *)
(***************************************************************************)
C29_AllOrNothing ==
    /\ \A q \in DoneRequests("encrypt") :
          /\ q.status \in {200, 400, 500}
          /\ q.status = 200 <=> RowsOf(q) # {}
          /\ q.status = 200 =>
                /\ q.reply.sent = {"id", "message"}
                /\ q.reply.id = q.seal.record.id
                /\ \A row \in RowsOf(q) : SameEnvelope(RecordOf(row), q.seal.record)
          /\ q.status # 200 =>
                /\ "id" \notin q.reply.sent
                /\ "error" \in q.reply.sent
    /\ \A row \in store :
          \E q \in requests :
              /\ q.route = "encrypt" /\ row \in RowsOf(q)
              /\ q.stage = "done" \/ (q.stage = "resume" /\ q.dbOk)

\* on the Prisma server one request was answered 200 and its record is
\* stored, and the write of another request's record threw: it was
\* answered 500 and the store holds the first record only
C29_Witness ==
    /\ server = "prisma"
    /\ \E a, b \in DoneRequests("encrypt") :
          /\ a.status = 200 /\ RowsOf(a) # {}
          /\ b.status = 500 /\ b.seal.ok /\ ~b.dbOk /\ a.n < b.n
          /\ b.reply.details = MsgCreateFailed
          /\ StoredIds = {a.reply.id}

\* exactly one of error and result is set
OneOfErrorAndResult == (ui.error # "") # (ui.result # NoResult)

(***************************************************************************)
(* C30.  The request state machine of TransactionUI, on both pages, under  *)
(* every sequence of typing, clicks and outcomes of the requests (a        *)
(* response that is ok, one that is not, a body that is not JSON, no       *)
(* response at all, a payload text that is not JSON): at most one handler  *)
(* is in flight, and loading is true exactly while one is; every handler   *)
(* that was started sets loading back to false; whenever loading is false  *)
(* after a handler has run, exactly one of error (not empty) and result    *)
(* (not null) is set; and an Encrypt click on a payload text that is not   *)
(* JSON sets error, leaves loading false and sends no request.             *)
(***************************************************************************)
C30_RequestStateMachine ==
    /\ [](/\ Len(ui.handlers) <= 1
          /\ ui.loading <=> ui.handlers # <<>>
          /\ (ui.ran /\ ~ui.loading) => OneOfErrorAndResult
          /\ (ui.clicked.kind = "encrypt" /\ ~JsonParse(ui.clicked.payload).ok) =>
                 /\ ui.sent = <<>>
                 /\ ~ui.loading
                 /\ ui.error = MsgSyntaxError /\ ui.result = NoResult)
    /\ (ui.loading ~> ~ui.loading)

\* an encrypt was answered and its id kept; the payload was then changed
\* to a text that is not JSON and Encrypt clicked again: the result is
\* cleared, error is set, nothing is loading and no request was sent
C30_Witness ==
    /\ ui.page = "component"
    /\ ui.transactionId = JStr(<<"t", "x", "1">>)
    /\ ui.clicked = [kind |-> "encrypt", payload |-> <<"{">>]
    /\ ui.ran /\ ~ui.loading /\ ui.handlers = <<>>
    /\ ui.error = MsgSyntaxError /\ ui.result = NoResult /\ ui.sent = <<>>

====
